---- MODULE Spec2Model ----
(***************************************************************************)
(* State machine of love::graphics::Graphics (modules/graphics/Graphics.cpp)*)
(* : the display-state stack, the transform stack, render-target switching,*)
(* the device projection and the batched-draw accumulator.                 *)
(*                                                                         *)
(* Every operation of the class is an operator from a graphics record g    *)
(* (one field per data member) to the record after the call.  A thrown     *)
(* love::Exception is the field err: the statements after a throw are not  *)
(* executed.  The field ev is the list of calls made into the backend      *)
(* (draw, setRenderTargetsInternal, dispatch, ...) during the current call,*)
(* each with the number of batched vertices pending at that moment.        *)
(***************************************************************************)
EXTENDS Integers, Sequences, FiniteSets, TLC

(***************************************************************************)
(* Program constants.                                                      *)
(***************************************************************************)
LOVE_UINT16_MAX == 65535

\* sizeof(uint16)
IndexSize == 2

(***************************************************************************)
(* Bounds of the model.                                                    *)
(***************************************************************************)
\* Graphics::MAX_USER_STACK_DEPTH, scaled down.
MAX_USER_STACK_DEPTH == 6

\* Requests made to the accumulator in one run of SpecBatch.
MaxRequests == 3

\* Sizes in bytes of the stream buffers the backend creates at start-up.
InitVertexBufferSize == 256

InitIndexBufferSize == 24

\* renderTargetSwitchCount is kept modulo this number.
SwitchCountWrap == 2

\* The frames an idle temporary texture or buffer is kept (scaled down), and
\* the temporary textures and buffers there are at a time.
MAX_TEMPORARY_RESOURCE_UNUSED_FRAMES == 2

MaxTemporary == 2

\* The frame slots of the Vulkan backend (N), the calls of beginFrame in one
\* run, and the cleanup callbacks queued in one run.
MAX_FRAMES_IN_FLIGHT == 2

MaxFrames == 5

MaxCleanUps == 2

\* The pushes outstanding at a time in SpecNested.
MaxNesting == 2

\* The temporary textures there are at a time in SpecTemporaryTargets.
MaxTemporaryTargets == 1
MaxCacheEntries == 2
HashRange == 3
MaxShaderStages == 3
MaxReadbacks == 4
MaxInstances == 2

\* OpenGL: the texture units and the shader-storage binding points of the
\* context (scaled down).
maxTextureUnits == 2

maxShaderStorageBufferBindings == 2

(***************************************************************************)
(* Small helpers.                                                          *)
(***************************************************************************)
Max(a, b) == IF a >= b THEN a ELSE b

Min(a, b) == IF a <= b THEN a ELSE b

Last(s) == s[Len(s)]

Front(s) == SubSeq(s, 1, Len(s) - 1)

SetTop(s, v) == [s EXCEPT ![Len(s)] = v]

RECURSIVE SeqSum(_)
SeqSum(s) == IF s = <<>> THEN 0 ELSE Head(s) + SeqSum(Tail(s))

RECURSIVE Flatten(_)
Flatten(ss) == IF ss = <<>> THEN <<>> ELSE Head(ss) \o Flatten(Tail(ss))

(***************************************************************************)
(* vertex.h: formats, strides and index counts.                            *)
(***************************************************************************)
getFormatStride(format) ==
    CASE format = "NONE" -> 0
      [] format = "XYf" -> 8
      [] format = "XYZf" -> 12
      [] format = "RGBAub" -> 4
      [] format = "XYf_STf_RGBAub" -> 20

\* VertexAttributes::setCommonFormat enables the colour attribute for the
\* formats that carry a colour.
hasColorAttribute(format) == format \in {"RGBAub", "XYf_STf_RGBAub"}

getIndexCount(indexMode, vertexCount) ==
    CASE indexMode = "NONE" -> 0
      [] indexMode = "FAN" -> 3 * (vertexCount - 2)
      [] indexMode = "QUADS" -> 6 * (vertexCount \div 4)

\* The corners of the two triangles of a quad.
QuadCorners == <<0, 1, 2, 2, 3, 0>>

\* fillIndices(indexMode, vertexStart, vertexCount, indices): the value of
\* indices[k - 1], a uint16, for k from 1 to getIndexCount.
fillIndices(indexMode, vertexStart, vertexCount, k) ==
    IF indexMode = "FAN"
    THEN (vertexStart + (IF (k - 1) % 3 = 0 THEN 0 ELSE ((k - 1) \div 3) + ((k - 1) % 3)))
            % (LOVE_UINT16_MAX + 1)
    ELSE (vertexStart + 4 * ((k - 1) \div 6) + QuadCorners[((k - 1) % 6) + 1])
            % (LOVE_UINT16_MAX + 1)

(***************************************************************************)
(* StreamBuffer: a buffer is known by its size (a replacement is always    *)
(* strictly larger, so the size names the allocation).  A MapInfo is the   *)
(* region returned by map(): closed (data == nullptr) or open on one       *)
(* allocation, with the write pointer's offset from the start of the       *)
(* region and the segments written through it.                             *)
(***************************************************************************)
newStreamBuffer(size) == [size |-> size]

getUsableSize(buffer) == buffer.size

ClosedMap == [open |-> FALSE, buf |-> 0, size |-> 0, pos |-> 0, segs |-> <<>>]

map(buffer) ==
    [open |-> TRUE, buf |-> buffer.size, size |-> getUsableSize(buffer),
     pos |-> 0, segs |-> <<>>]

\* A write of len bytes for request req at the write pointer, which then
\* advances by adv bytes.  What was written at or after the pointer before is
\* overwritten.  base is the vertex base the written indices are offset by.
WriteAdvance(m, req, base, len, adv) ==
    [m EXCEPT
       !.segs = IF len = 0 THEN @
                ELSE SelectSeq(@, LAMBDA s : s.off + s.len <= m.pos)
                     \o <<[req |-> req, off |-> m.pos, len |-> len, base |-> base]>>,
       !.pos = @ + adv]

\* The requests whose data a draw reading `used` bytes from the start of the
\* region of `buffer` gets: the segments written through a region open on
\* that allocation.  Reading bytes nobody wrote gives garbage.
RegionReqs(m, buffer, used) ==
    IF m.open /\ m.buf = buffer.size
    THEN LET inside == SelectSeq(m.segs, LAMBDA s : s.off + s.len <= used)
         IN [reqs |-> [i \in 1..Len(inside) |-> inside[i].req],
             garbage |-> SeqSum([i \in 1..Len(inside) |-> inside[i].len]) # used]
    ELSE [reqs |-> <<>>, garbage |-> used > 0]

(***************************************************************************)
(* The graphics record.                                                    *)
(***************************************************************************)
White == "white"

\* Shader::standardShaders.
StandardShaders == {"STANDARD_DEFAULT", "STANDARD_POINTS"}

\* BatchedDrawState() and the stream buffers the backend creates in setMode.
InitBatchedDrawState ==
    [primitiveMode |-> "TRIANGLES",
     formats |-> <<"NONE", "NONE">>,
     texture |-> "none",
     standardShaderType |-> "STANDARD_DEFAULT",
     vertexCount |-> 0,
     indexCount |-> 0,
     vb |-> <<newStreamBuffer(InitVertexBufferSize), newStreamBuffer(InitVertexBufferSize)>>,
     indexBuffer |-> newStreamBuffer(InitIndexBufferSize),
     vbMap |-> <<ClosedMap, ClosedMap>>,
     indexBufferMap |-> ClosedMap]

\* A call into the backend, with the batched vertices and indices pending,
\* the switch counter and the render targets of the current state at that
\* moment.
Emit(g, type, data) ==
    [g EXCEPT !.ev = Append(@, [type |-> type,
                                pendingV |-> g.batchedDrawState.vertexCount,
                                pendingI |-> g.batchedDrawState.indexCount,
                                switchCount |-> g.renderTargetSwitchCount,
                                renderTargets |-> g.states[Len(g.states)].renderTargets,
                                data |-> data])]

Throw(g, what) == [g EXCEPT !.err = what]

Threw(g) == g.err # "none"

(***************************************************************************)
(* Colour and transform stack.                                             *)
(***************************************************************************)
getColor(g) == Last(g.states).color

\* The backend's setColor: sets the constant colour and the current state's.
setColor(g, c) ==
    [g EXCEPT !.states = SetTop(@, [Last(@) EXCEPT !.color = c])]

pushTransform(g) ==
    [g EXCEPT !.transformStack = Append(@, Last(@))]

pushIdentityTransform(g) ==
    [g EXCEPT !.transformStack = Append(@, "identity")]

popTransform(g) ==
    [g EXCEPT !.transformStack = Front(@)]

(***************************************************************************)
(* Graphics::flushBatchedDraws.                                            *)
(***************************************************************************)
\* The backend's draw(DrawCommand) / draw(DrawIndexedCommand) as issued by
\* flushBatchedDraws: what the draw reads from the stream buffers.  sb is the
\* batch with its regions as they are when they are unmapped.
BatchedDrawCall(g, sb, usedsizes) ==
    [indexed |-> sb.indexCount > 0,
     primitiveType |-> sb.primitiveMode,
     vertexCount |-> sb.vertexCount,
     indexCount |-> sb.indexCount,
     texture |-> sb.texture,
     color |-> getColor(g),
     transform |-> Last(g.transformStack),
     vreqs |-> RegionReqs(sb.vbMap[1], sb.vb[1], usedsizes[1]).reqs,
     ireqs |-> RegionReqs(sb.indexBufferMap, sb.indexBuffer, usedsizes[3]).reqs,
     garbage |-> \/ RegionReqs(sb.vbMap[1], sb.vb[1], usedsizes[1]).garbage
                 \/ RegionReqs(sb.indexBufferMap, sb.indexBuffer, usedsizes[3]).garbage]

draw(g, cmd) ==
    IF g.track
    THEN [Emit(g, "draw", cmd) EXCEPT !.drawLog = Append(@, cmd)]
    ELSE Emit(g, "draw", cmd)

\* Lines 1719-1733, 1746: the bytes used in the three stream buffers.
UsedSizes(sb) ==
    <<IF sb.formats[1] # "NONE" THEN getFormatStride(sb.formats[1]) * sb.vertexCount ELSE 0,
      IF sb.formats[2] # "NONE" THEN getFormatStride(sb.formats[2]) * sb.vertexCount ELSE 0,
      IF sb.indexCount > 0 THEN IndexSize * sb.indexCount ELSE 0>>

\* attributes.isEnabled(ATTRIB_COLOR).
ColorEnabled(sb) == \E i \in 1..2 : hasColorAttribute(sb.formats[i])

\* Lines 1721-1733: the vertex buffers in use are unmapped.
UnmapVertexBuffers(g) ==
    [g EXCEPT !.batchedDrawState.vbMap =
        [i \in 1..2 |-> IF g.batchedDrawState.formats[i] # "NONE" THEN ClosedMap ELSE @[i]]]

\* Lines 1744-1766: the draw call; only the indexed one unmaps the indices.
IssueBatchedDraw(g, sb) ==
    IF sb.indexCount > 0
    THEN [draw(g, BatchedDrawCall(g, sb, UsedSizes(sb))) EXCEPT
            !.batchedDrawState.indexBufferMap = ClosedMap]
    ELSE draw(g, BatchedDrawCall(g, sb, UsedSizes(sb)))

\* Lines 1739-1740, 1779-1780.
SetColorIf(enabled, g, c) == IF enabled THEN setColor(g, c) ELSE g

\* Lines 1782-1783.
ResetCounts(g) ==
    [g EXCEPT !.batchedDrawState.vertexCount = 0, !.batchedDrawState.indexCount = 0]

flushBatchedDraws(g) ==
    IF g.batchedDrawState.vertexCount = 0 /\ g.batchedDrawState.indexCount = 0 THEN g
    ELSE IF \A i \in 1..2 : g.batchedDrawState.formats[i] = "NONE" THEN UnmapVertexBuffers(g)
    ELSE ResetCounts(
           SetColorIf(ColorEnabled(g.batchedDrawState),
                      popTransform(
                        IssueBatchedDraw(
                          pushIdentityTransform(
                            SetColorIf(ColorEnabled(g.batchedDrawState),
                                       UnmapVertexBuffers(g), White)),
                          g.batchedDrawState)),
                      getColor(g)))

(***************************************************************************)
(* Graphics::requestBatchedDraw.  cmd is the BatchedDrawCommand; the       *)
(* result's field ret is the BatchedVertexData returned: for each stream   *)
(* the allocation and offset the caller writes its vertices to.  The       *)
(* caller's write of the vertices is part of the operator.                 *)
(***************************************************************************)
\* Shader::isDefaultActive.
isDefaultActive(g) == g.shaderCurrent \in StandardShaders

\* Shader::attachDefault.
attachDefault(g, type) == [g EXCEPT !.shaderCurrent = type]

\* Lines 1581-1588: the command differs from the accumulating batch.
BatchKeyDiffers(cmd, state) ==
    \/ cmd.primitiveMode # state.primitiveMode
    \/ cmd.formats[1] # state.formats[1]
    \/ cmd.formats[2] # state.formats[2]
    \/ ((cmd.indexMode # "NONE") # (state.indexCount > 0))
    \/ cmd.texture # state.texture
    \/ cmd.standardShaderType # state.standardShaderType

\* Lines 1590-1594: the 16-bit index limit.
IndexLimitExceeded(cmd, state) ==
    state.vertexCount + cmd.vertexCount > LOVE_UINT16_MAX /\ cmd.indexMode # "NONE"

\* Lines 1608, 1624: the bytes stream i (3: the indices) has to hold.
DataSize(cmd, state, i) ==
    IF i = 3
    THEN (state.indexCount + getIndexCount(cmd.indexMode, cmd.vertexCount)) * IndexSize
    ELSE getFormatStride(cmd.formats[i]) * (state.vertexCount + cmd.vertexCount)

\* Lines 1604, 1622: the command uses stream i.
UsesStream(cmd, i) ==
    IF i = 3 THEN cmd.indexMode # "NONE" ELSE cmd.formats[i] # "NONE"

\* Lines 1613-1617, 1629-1633: the sizes the three stream buffers have to
\* grow to (0: no growth).
RequiredBufferSizes(cmd, state) ==
    [i \in 1..3 |->
       IF i = 3
       THEN IF UsesStream(cmd, 3) /\ DataSize(cmd, state, 3) > getUsableSize(state.indexBuffer)
            THEN Max(DataSize(cmd, state, 3), state.indexBuffer.size * 2) ELSE 0
       ELSE IF UsesStream(cmd, i) /\ DataSize(cmd, state, i) > getUsableSize(state.vb[i])
            THEN Max(DataSize(cmd, state, i), state.vb[i].size * 2) ELSE 0]

\* Lines 1610-1611, 1626-1627: an open region is too small.
MapTooSmall(cmd, state) ==
    \/ \E i \in 1..2 : /\ UsesStream(cmd, i)
                        /\ state.vbMap[i].open
                        /\ DataSize(cmd, state, i) > state.vbMap[i].size
    \/ /\ UsesStream(cmd, 3)
       /\ state.indexBufferMap.open
       /\ DataSize(cmd, state, 3) > state.indexBufferMap.size

\* Lines 1656-1672: replace the stream buffers that are too small.
ResizeBuffers(state, buffersizes) ==
    [state EXCEPT
       !.vb = [i \in 1..2 |-> IF @[i].size < buffersizes[i]
                               THEN newStreamBuffer(buffersizes[i]) ELSE @[i]],
       !.indexBuffer = IF @.size < buffersizes[3]
                       THEN newStreamBuffer(buffersizes[3]) ELSE @]

\* Lines 1636-1645: flush, and take over the command's key.
FlushForRequest(g, cmd) ==
    IF \/ BatchKeyDiffers(cmd, g.batchedDrawState)
       \/ IndexLimitExceeded(cmd, g.batchedDrawState)
       \/ MapTooSmall(cmd, g.batchedDrawState)
       \/ \E i \in 1..3 : RequiredBufferSizes(cmd, g.batchedDrawState)[i] > 0
    THEN [flushBatchedDraws(g) EXCEPT
            !.batchedDrawState.primitiveMode = cmd.primitiveMode,
            !.batchedDrawState.formats = cmd.formats,
            !.batchedDrawState.texture = cmd.texture,
            !.batchedDrawState.standardShaderType = cmd.standardShaderType]
    ELSE g

\* Lines 1647-1654.
AttachForRequest(g) ==
    IF g.batchedDrawState.vertexCount = 0 /\ isDefaultActive(g)
    THEN attachDefault(g, g.batchedDrawState.standardShaderType)
    ELSE g

\* Lines 1656-1672; buffersizes were computed before the flush.
ResizeForRequest(g, buffersizes) ==
    IF \E i \in 1..3 : buffersizes[i] > 0
    THEN [g EXCEPT !.batchedDrawState = ResizeBuffers(@, buffersizes)]
    ELSE g

\* Lines 1596-1597.
ReqIndexSize(cmd) == getIndexCount(cmd.indexMode, cmd.vertexCount) * IndexSize

\* Line 1619.
NewDataSize(cmd, i) == getFormatStride(cmd.formats[i]) * cmd.vertexCount

\* Lines 1674-1683: the indices are written through the open region; the
\* index buffer is mapped only if no region is open.
WriteIndices(g, cmd, req) ==
    IF cmd.indexMode # "NONE"
    THEN [g EXCEPT !.batchedDrawState.indexBufferMap =
            WriteAdvance(IF @.open THEN @ ELSE map(g.batchedDrawState.indexBuffer),
                         req, g.batchedDrawState.vertexCount,
                         ReqIndexSize(cmd), ReqIndexSize(cmd))]
    ELSE g

\* Lines 1691-1692: the region of stream i the vertices are written through.
OpenedMap(g, cmd, i) ==
    IF NewDataSize(cmd, i) > 0 /\ ~g.batchedDrawState.vbMap[i].open
    THEN map(g.batchedDrawState.vb[i])
    ELSE g.batchedDrawState.vbMap[i]

\* Lines 1685-1698: the pointers returned, and the caller's writes.
WriteVertices(g, cmd, req) ==
    [g EXCEPT
       !.batchedDrawState.vbMap =
          [i \in 1..2 |->
             IF NewDataSize(cmd, i) > 0
             THEN WriteAdvance(OpenedMap(g, cmd, i), req, g.batchedDrawState.vertexCount,
                               NewDataSize(cmd, i), NewDataSize(cmd, i))
             ELSE OpenedMap(g, cmd, i)],
       !.ret =
          [i \in 1..2 |->
             IF NewDataSize(cmd, i) > 0
             THEN [buf |-> OpenedMap(g, cmd, i).buf, off |-> OpenedMap(g, cmd, i).pos,
                   len |-> NewDataSize(cmd, i)]
             ELSE [buf |-> 0, off |-> 0, len |-> 0]]]

\* Lines 1703-1704, and the log of the requests.
CountRequest(g, cmd, req) ==
    [g EXCEPT !.batchedDrawState.vertexCount = @ + cmd.vertexCount,
              !.batchedDrawState.indexCount = @ + getIndexCount(cmd.indexMode, cmd.vertexCount),
              !.nreq = IF g.track THEN req ELSE @,
              !.reqLog = IF g.track THEN Append(@, cmd) ELSE @]

\* The number the request is logged under (0: not logged).
RequestId(g) == IF g.track THEN g.nreq + 1 ELSE 0

requestBatchedDraw(g, cmd) ==
    CountRequest(
      WriteVertices(
        WriteIndices(
          ResizeForRequest(AttachForRequest(FlushForRequest(g, cmd)),
                           RequiredBufferSizes(cmd, g.batchedDrawState)),
          cmd, RequestId(g)),
        cmd, RequestId(g)),
      cmd, RequestId(g))

(***************************************************************************)
(* Textures.  The textures the model draws render targets from: name,       *)
(* pixel format, pixel size of mipmap 0, mipmap count, whether it was       *)
(* created as a render target, requested MSAA.  All are 2D textures.        *)
(***************************************************************************)
Textures ==
    [A |-> [format |-> "RGBA8", w |-> 4, h |-> 4, mipmaps |-> 1, renderTarget |-> TRUE, msaa |-> 1],
     C |-> [format |-> "RGBA8", w |-> 8, h |-> 8, mipmaps |-> 2, renderTarget |-> TRUE, msaa |-> 1],
     D |-> [format |-> "DEPTH24", w |-> 8, h |-> 8, mipmaps |-> 2, renderTarget |-> TRUE, msaa |-> 1],
     F |-> [format |-> "RGBA16F", w |-> 4, h |-> 4, mipmaps |-> 1, renderTarget |-> TRUE, msaa |-> 1],
     M |-> [format |-> "RGBA8", w |-> 4, h |-> 4, mipmaps |-> 1, renderTarget |-> TRUE, msaa |-> 4],
     N |-> [format |-> "RGBA8", w |-> 4, h |-> 4, mipmaps |-> 1, renderTarget |-> FALSE, msaa |-> 1]]

RECURSIVE ShiftRight(_, _)
ShiftRight(n, k) == IF k <= 0 THEN n ELSE ShiftRight(n \div 2, k - 1)

\* Texture::getPixelWidth(mip), getPixelHeight(mip): max(size >> mip, 1).
getPixelWidth(t, mip) == Max(ShiftRight(Textures[t].w, mip), 1)

getPixelHeight(t, mip) == Max(ShiftRight(Textures[t].h, mip), 1)

getMipmapCount(t) == Textures[t].mipmaps

getRequestedMSAA(t) == Textures[t].msaa

isRenderTarget(t) == Textures[t].renderTarget

getPixelFormat(t) == Textures[t].format

\* Texture::isValidSlice for a 2D texture.
isValidSlice(t, slice, mip) == slice = 0

isPixelFormatDepthStencil(format) ==
    format \in {"STENCIL8", "DEPTH16", "DEPTH24", "DEPTH24_STENCIL8"}

isPixelFormatSRGB(format) ==
    format \in {"SRGBA8", "PIXELFORMAT_RGBA8_UNORM_sRGB", "PIXELFORMAT_BGRA8_UNORM_sRGB"}

\* capabilities.features[FEATURE_MULTI_RENDER_TARGET_FORMATS]
MultiFormatSupported == FALSE

\* isPixelFormatSupported(PIXELFORMAT_DEPTH24_UNORM, render target)
Depth24Supported == TRUE

\* The bits of temporaryRTFlags, kept as a set.
TEMPORARY_RT_DEPTH == "DEPTH"

TEMPORARY_RT_STENCIL == "STENCIL"

\* capabilities.limits[LIMIT_RENDER_TARGETS]
LimitRenderTargets == 2

\* The window: getWidth(), getHeight().
Screen == [w |-> 16, h |-> 16]

RenderTarget(texture, slice, mipmap) ==
    [texture |-> texture, slice |-> slice, mipmap |-> mipmap]

\* RenderTargets::getFirstTarget.
getFirstTarget(rts) ==
    IF rts.colors = <<>> THEN rts.depthStencil ELSE rts.colors[1]

(***************************************************************************)
(* Projection.                                                             *)
(***************************************************************************)
\* Matrix4::ortho(0, w, 0, h, -10, 10).
ortho(w, h) == [kind |-> "ortho", w |-> w, h |-> h, m |-> "none"]

\* A matrix the caller passes to setCustomProjection.
custom(m) == [kind |-> "custom", w |-> 0, h |-> 0, m |-> m]

\* The backend's computeDeviceProjection(projection, rendertotexture).
computeDeviceProjection(projection, rendertotexture) ==
    [projection |-> projection, rendertotexture |-> rendertotexture]

isRenderTargetActive(g) ==
    LET rts == Last(g.states).renderTargets
    IN rts.colors # <<>> \/ rts.depthStencil.texture # "null"

updateDeviceProjection(g, projection) ==
    [Emit(g, "deviceProjection", computeDeviceProjection(projection, isRenderTargetActive(g)))
       EXCEPT !.deviceProjectionMatrix =
                 computeDeviceProjection(projection, isRenderTargetActive(g))]

\* Lines 2449-2457, 2461: the projection of the first target, or the screen.
TargetProjection(rt) ==
    IF rt.texture # "null"
    THEN ortho(getPixelWidth(rt.texture, rt.mipmap), getPixelHeight(rt.texture, rt.mipmap))
    ELSE ortho(Screen.w, Screen.h)

\* Lines 2448-2461: resetProjection after its flush.
StoreDefaultProjection(g) ==
    updateDeviceProjection(
        [g EXCEPT !.states = SetTop(@, [Last(@) EXCEPT !.useCustomProjection = FALSE])],
        TargetProjection(getFirstTarget(Last(g.states).renderTargets)))

resetProjection(g) == StoreDefaultProjection(flushBatchedDraws(g))

\* Lines 2436-2441: setCustomProjection after its flush.
StoreCustomProjection(g, m) ==
    updateDeviceProjection(
        [g EXCEPT !.states = SetTop(@, [Last(@) EXCEPT !.useCustomProjection = TRUE,
                                                       !.customProjection = m])],
        m)

\* setCustomProjection without the flush.
setCustomProjectionNoFlush(g, m) == StoreCustomProjection(g, m)

setCustomProjection(g, m) == StoreCustomProjection(flushBatchedDraws(g), m)

\* Matrix4::ortho(0, w, 0, h, near, far).
orthoNearFar(w, h, near, far) ==
    IF near = -10 /\ far = 10 THEN ortho(w, h)
    ELSE [kind |-> "ortho", w |-> w, h |-> h, m |-> ToString(near) \o ".." \o ToString(far)]

\* Matrix4::perspective(verticalfov, aspect, near, far).
perspective(verticalfov, aspect, near, far) ==
    custom("perspective:" \o ToString(verticalfov) \o ":" \o ToString(aspect) \o ":"
              \o ToString(near) \o ".." \o ToString(far))

\* Graphics::setOrthoProjection.
setOrthoProjection(g, w, h, near, far) ==
    IF near >= far THEN Throw(g, "far must be greater than near")
    ELSE setCustomProjection(g, orthoNearFar(w, h, near, far))

\* Graphics::setPerspectiveProjection.
setPerspectiveProjection(g, verticalfov, aspect, near, far) ==
    IF near <= 0 THEN Throw(g, "near must be greater than 0")
    ELSE IF near >= far THEN Throw(g, "far must be greater than near")
    ELSE setCustomProjection(g, perspective(verticalfov, aspect, near, far))

(***************************************************************************)
(* Temporary textures and buffers.  A pool entry is the object (its name   *)
(* carries the shape and a serial number that tells it from the other      *)
(* live objects of that shape) and framesSinceUse: negative while the      *)
(* object is checked out.                                                  *)
(***************************************************************************)
TemporaryTextureName(format, w, h, samples, serial) ==
    "temp:" \o format \o ":" \o ToString(w) \o "x" \o ToString(h) \o ":"
        \o ToString(samples) \o "#" \o ToString(serial)

TemporaryTexture(format, w, h, samples, serial) ==
    [texture |-> TemporaryTextureName(format, w, h, samples, serial),
     format |-> format, w |-> w, h |-> h, samples |-> samples, serial |-> serial,
     framesSinceUse |-> -1]

\* The least of a set of indices: the entry a loop from the front finds first.
FirstIndex(S) == CHOOSE j \in S : \A k \in S : j <= k

\* A new object is none of the live ones.
FreeSerial(pool) ==
    FirstIndex({n \in 1..(Len(pool) + 1) : \A i \in 1..Len(pool) : pool[i].serial # n})

\* Lines 1052-1065: the entries the loop accepts; skipCheckedOut is whether
\* it passes over the entries that are checked out (line 1054).
TextureFits(pool, format, w, h, samples, skipCheckedOut) ==
    {i \in 1..Len(pool) :
        /\ skipCheckedOut => pool[i].framesSinceUse >= 0
        /\ pool[i].format = format /\ pool[i].w = w
        /\ pool[i].h = h /\ pool[i].samples = samples}

\* Lines 1050-1081, with the set of the entries that fit.
TakeTemporaryTexture(g, format, w, h, samples, fits) ==
    IF fits # {}
    THEN [g EXCEPT !.temporaryTextures[FirstIndex(fits)].framesSinceUse = -1,
                   !.ret = g.temporaryTextures[FirstIndex(fits)].texture]
    ELSE [Emit(g, "newTexture",
               TemporaryTextureName(format, w, h, samples, FreeSerial(g.temporaryTextures)))
            EXCEPT !.temporaryTextures =
                      Append(@, TemporaryTexture(format, w, h, samples, FreeSerial(@))),
                   !.ret = TemporaryTextureName(format, w, h, samples,
                                                FreeSerial(g.temporaryTextures))]

\* getTemporaryTexture without the test of framesSinceUse.
getTemporaryTextureCheckedOut(g, format, w, h, samples) ==
    TakeTemporaryTexture(g, format, w, h, samples,
                         TextureFits(g.temporaryTextures, format, w, h, samples, FALSE))

\* Graphics::getTemporaryTexture.  The result's field ret is the texture
\* returned.
getTemporaryTexture(g, format, w, h, samples) ==
    TakeTemporaryTexture(g, format, w, h, samples,
                         TextureFits(g.temporaryTextures, format, w, h, samples, TRUE))

\* Lines 1086-1093.
TextureEntries(pool, texture) == {i \in 1..Len(pool) : pool[i].texture = texture}

\* releaseTemporaryTexture that leaves the entry checked out.
releaseTemporaryTextureNot(g, texture) == g

\* Graphics::releaseTemporaryTexture.
releaseTemporaryTexture(g, texture) ==
    IF TextureEntries(g.temporaryTextures, texture) = {} THEN g
    ELSE [g EXCEPT !.temporaryTextures[FirstIndex(TextureEntries(g.temporaryTextures, texture))].framesSinceUse = 0]

TemporaryBufferName(size, format, usageflags, datausage, serial) ==
    "tempbuffer:" \o ToString(size) \o ":" \o format \o ":" \o usageflags \o ":"
        \o datausage \o "#" \o ToString(serial)

TemporaryBuffer(size, format, usageflags, datausage, serial) ==
    [buffer |-> TemporaryBufferName(size, format, usageflags, datausage, serial),
     size |-> size, format |-> format, usageflags |-> usageflags, datausage |-> datausage,
     serial |-> serial, framesSinceUse |-> -1]

\* Lines 1100-1115.
BufferFits(pool, size, format, usageflags, datausage) ==
    {i \in 1..Len(pool) :
        /\ pool[i].framesSinceUse >= 0
        /\ pool[i].size = size /\ pool[i].format = format
        /\ pool[i].usageflags = usageflags /\ pool[i].datausage = datausage}

\* Lines 1098-1124, with the set of the entries that fit.
TakeTemporaryBuffer(g, size, format, usageflags, datausage, fits) ==
    IF fits # {}
    THEN [g EXCEPT !.temporaryBuffers[FirstIndex(fits)].framesSinceUse = -1,
                   !.ret = g.temporaryBuffers[FirstIndex(fits)].buffer]
    ELSE [Emit(g, "newBuffer",
               TemporaryBufferName(size, format, usageflags, datausage,
                                   FreeSerial(g.temporaryBuffers)))
            EXCEPT !.temporaryBuffers =
                      Append(@, TemporaryBuffer(size, format, usageflags, datausage,
                                                FreeSerial(@))),
                   !.ret = TemporaryBufferName(size, format, usageflags, datausage,
                                               FreeSerial(g.temporaryBuffers))]

\* Graphics::getTemporaryBuffer.  The result's field ret is the buffer returned.
getTemporaryBuffer(g, size, format, usageflags, datausage) ==
    TakeTemporaryBuffer(g, size, format, usageflags, datausage,
                        BufferFits(g.temporaryBuffers, size, format, usageflags, datausage))

\* Lines 1129-1136.
BufferEntries(pool, buffer) == {i \in 1..Len(pool) : pool[i].buffer = buffer}

\* Graphics::releaseTemporaryBuffer.
releaseTemporaryBuffer(g, buffer) ==
    IF BufferEntries(g.temporaryBuffers, buffer) = {} THEN g
    ELSE [g EXCEPT !.temporaryBuffers[FirstIndex(BufferEntries(g.temporaryBuffers, buffer))].framesSinceUse = 0]

\* Lines 1141-1152 and 1154-1165: the loop from the last entry (i = Len) to
\* the first.  An entry idle for limit frames is overwritten by the last
\* entry and the last entry is popped; an idle entry ages by one frame.
RECURSIVE AgeAndEvict(_, _, _)
AgeAndEvict(pool, i, limit) ==
    IF i = 0 THEN pool
    ELSE IF pool[i].framesSinceUse >= limit
         THEN AgeAndEvict(Front([pool EXCEPT ![i] = Last(pool)]), i - 1, limit)
    ELSE IF pool[i].framesSinceUse >= 0
         THEN AgeAndEvict([pool EXCEPT ![i].framesSinceUse = @ + 1], i - 1, limit)
    ELSE AgeAndEvict(pool, i - 1, limit)

\* Lines 1146 and 1159: the objects the loop releases, last entry first.
RECURSIVE Released(_, _, _)
Released(pool, i, limit) ==
    IF i = 0 THEN <<>>
    ELSE IF pool[i].framesSinceUse >= limit
         THEN <<pool[i]>> \o Released(pool, i - 1, limit)
    ELSE Released(pool, i - 1, limit)

\* The loop run from the first entry to the last: after an eviction it goes
\* on with the next index, past the entry that was moved into the gap.
RECURSIVE AgeAndEvictForward(_, _, _)
AgeAndEvictForward(pool, i, limit) ==
    IF i > Len(pool) THEN pool
    ELSE IF pool[i].framesSinceUse >= limit
         THEN AgeAndEvictForward(Front([pool EXCEPT ![i] = Last(pool)]), i + 1, limit)
    ELSE IF pool[i].framesSinceUse >= 0
         THEN AgeAndEvictForward([pool EXCEPT ![i].framesSinceUse = @ + 1], i + 1, limit)
    ELSE AgeAndEvictForward(pool, i + 1, limit)

\* updateTemporaryResources with its loops run forward.
AgeAndEvictAllForward(g, limit) ==
    [g EXCEPT
       !.temporaryTextures = AgeAndEvictForward(@, 1, limit),
       !.temporaryBuffers = AgeAndEvictForward(@, 1, limit)]

\* Both loops of updateTemporaryResources, for the idle limit given.
AgeAndEvictAll(g, limit) ==
    [g EXCEPT
       !.temporaryTextures = AgeAndEvict(@, Len(@), limit),
       !.temporaryBuffers = AgeAndEvict(@, Len(@), limit),
       !.ev = @ \o [k \in 1..Len(Released(g.temporaryTextures, Len(g.temporaryTextures), limit)) |->
                      [type |-> "release",
                       pendingV |-> g.batchedDrawState.vertexCount,
                       pendingI |-> g.batchedDrawState.indexCount,
                       data |-> Released(g.temporaryTextures,
                                         Len(g.temporaryTextures), limit)[k].texture]]
                 \o [k \in 1..Len(Released(g.temporaryBuffers, Len(g.temporaryBuffers), limit)) |->
                      [type |-> "release",
                       pendingV |-> g.batchedDrawState.vertexCount,
                       pendingI |-> g.batchedDrawState.indexCount,
                       data |-> Released(g.temporaryBuffers,
                                         Len(g.temporaryBuffers), limit)[k].buffer]]]

\* updateTemporaryResources that releases whatever is idle.
updateTemporaryResourcesIdle(g) == AgeAndEvictAll(g, 0)

\* Graphics::updateTemporaryResources.
updateTemporaryResources(g) == AgeAndEvictAll(g, MAX_TEMPORARY_RESOURCE_UNUSED_FRAMES)

(***************************************************************************)
(* Render targets.                                                         *)
(***************************************************************************)
NoTarget == [texture |-> "null", slice |-> 0, mipmap |-> 0]

\* RenderTargets() / RenderTargetsStrongRef(): the default target (the screen).
DefaultRenderTargets ==
    [colors |-> <<>>, depthStencil |-> NoTarget, temporaryRTFlags |-> {}]

\* DisplayState::DisplayState().
DefaultDisplayState ==
    [color |-> White,
     scissor |-> FALSE,
     scissorRect |-> [x |-> 0, y |-> 0, w |-> 0, h |-> 0],
     shader |-> "null",
     renderTargets |-> DefaultRenderTargets,
     useCustomProjection |-> FALSE,
     customProjection |-> custom("identity")]

\* RenderTargetStrongRef(texture, slice, mipmap = 0).
RenderTargetStrongRef(texture, slice) ==
    [texture |-> texture, slice |-> slice, mipmap |-> 0]

\* The backend's setRenderTargetsInternal: binds the targets.
setRenderTargetsInternal(g, rts, pixelw, pixelh, hasSRGBtexture) ==
    [Emit(g, "setRenderTargetsInternal",
          [rts |-> rts, pixelw |-> pixelw, pixelh |-> pixelh]) EXCEPT !.boundRTs = rts]

\* The backend's clear of the depth/stencil buffers.
clear(g, color, stencil, depth) ==
    Emit(g, "clear", [color |-> color, stencil |-> stencil, depth |-> depth])

\* Lines 985-988: setRenderTarget() after its flush.
SwitchToScreen(g) ==
    [setRenderTargetsInternal(g, DefaultRenderTargets, Screen.w, Screen.h, FALSE) EXCEPT
        !.states = SetTop(@, [Last(@) EXCEPT !.renderTargets = DefaultRenderTargets]),
        !.renderTargetSwitchCount = (@ + 1) % SwitchCountWrap]

\* Graphics::setRenderTarget(): back to the screen.
setRenderTargetNone(g) ==
    IF /\ Last(g.states).renderTargets.colors = <<>>
       /\ Last(g.states).renderTargets.depthStencil.texture = "null"
    THEN g
    ELSE resetProjection(SwitchToScreen(flushBatchedDraws(g)))

\* Lines 812-833: the target set differs from the current one.
RenderTargetsModified(rts, prevRTs) ==
    \/ Len(rts.colors) # Len(prevRTs.colors)
    \/ \E i \in 1..Len(rts.colors) : rts.colors[i] # prevRTs.colors[i]
    \/ rts.depthStencil # prevRTs.depthStencil
    \/ rts.temporaryRTFlags # prevRTs.temporaryRTFlags

\* Lines 835-916: the error the validation raises, "none" if it passes.
RenderTargetsError(rts) ==
    LET rtcount == Len(rts.colors)
        firsttarget == getFirstTarget(rts)
        firsttex == firsttarget.texture
        firstcolorformat == IF rts.colors # <<>> THEN getPixelFormat(rts.colors[1].texture)
                            ELSE "UNKNOWN"
        pixelw == getPixelWidth(firsttex, firsttarget.mipmap)
        pixelh == getPixelHeight(firsttex, firsttarget.mipmap)
        reqmsaa == getRequestedMSAA(firsttex)
        ColorError(i) ==
            LET c == rts.colors[i].texture
                mip == rts.colors[i].mipmap
                slice == rts.colors[i].slice
            IN IF ~isRenderTarget(c) THEN "not a render target"
               ELSE IF mip < 0 \/ mip >= getMipmapCount(c) THEN "invalid mipmap"
               ELSE IF ~isValidSlice(c, slice, mip) THEN "invalid slice"
               ELSE IF getPixelWidth(c, mip) # pixelw \/ getPixelHeight(c, mip) # pixelh
                    THEN "pixel dimensions"
               ELSE IF ~MultiFormatSupported /\ getPixelFormat(c) # firstcolorformat
                    THEN "texture formats"
               ELSE IF getRequestedMSAA(c) # reqmsaa THEN "MSAA"
               ELSE IF isPixelFormatDepthStencil(getPixelFormat(c)) THEN "depth format as color"
               ELSE "none"
        bad == {i \in 2..rtcount : ColorError(i) # "none"}
        ds == rts.depthStencil
    IN IF rtcount > LimitRenderTargets THEN "too many render targets"
       ELSE IF ~isRenderTarget(firsttex) THEN "not a render target"
       ELSE IF isPixelFormatDepthStencil(firstcolorformat) THEN "depth format as color"
       ELSE IF firsttarget.mipmap < 0 \/ firsttarget.mipmap >= getMipmapCount(firsttex)
            THEN "invalid mipmap"
       ELSE IF ~isValidSlice(firsttex, firsttarget.slice, firsttarget.mipmap) THEN "invalid slice"
       ELSE IF bad # {} THEN ColorError(CHOOSE i \in bad : \A j \in bad : i <= j)
       ELSE IF ds.texture = "null" THEN "none"
       ELSE IF ~isRenderTarget(ds.texture) THEN "not a render target"
       ELSE IF ~isPixelFormatDepthStencil(getPixelFormat(ds.texture)) THEN "color format as depth"
       ELSE IF getPixelWidth(ds.texture, ds.mipmap) # pixelw
               \/ getPixelHeight(ds.texture, ds.mipmap) # pixelh THEN "pixel dimensions"
       ELSE IF getRequestedMSAA(ds.texture) # reqmsaa THEN "MSAA"
       ELSE IF ds.mipmap < 0 \/ ds.mipmap >= getMipmapCount(ds.texture) THEN "invalid mipmap"
       ELSE IF ~isValidSlice(ds.texture, ds.slice, ds.mipmap) THEN "invalid slice"
       ELSE "none"

\* Lines 922-933: the format of the temporary depth/stencil texture.
TemporaryFormatFor(flags, depth24supported) ==
    LET wantsdepth == TEMPORARY_RT_DEPTH \in flags
        wantsstencil == TEMPORARY_RT_STENCIL \in flags
    IN IF wantsdepth /\ wantsstencil THEN "DEPTH24_STENCIL8"
       ELSE IF wantsdepth /\ depth24supported THEN "DEPTH24"
       ELSE IF wantsdepth THEN "DEPTH16"
       ELSE "STENCIL8"

TemporaryFormat(flags) == TemporaryFormatFor(flags, Depth24Supported)

\* Lines 951-960: the references kept in the DisplayState.
StoredRenderTargets(rts) ==
    [colors |-> rts.colors,
     depthStencil |-> RenderTargetStrongRef(rts.depthStencil.texture, rts.depthStencil.slice),
     temporaryRTFlags |-> rts.temporaryRTFlags]

\* Lines 857-858: the pixel size of the first target.
FirstPixelWidth(rts) ==
    getPixelWidth(getFirstTarget(rts).texture, getFirstTarget(rts).mipmap)

FirstPixelHeight(rts) ==
    getPixelHeight(getFirstTarget(rts).texture, getFirstTarget(rts).mipmap)

\* Line 920.
WantsTemporary(rts) ==
    rts.depthStencil.texture = "null" /\ rts.temporaryRTFlags # {}

\* Lines 937-946: t is the result of getTemporaryTexture; the texture is
\* bound as the depth/stencil target and handed back to the pool.
BindTemporary(t, rts, ret) ==
    setRenderTargetsInternal(
        [releaseTemporaryTexture(t, t.ret) EXCEPT !.ret = ret],
        [rts EXCEPT !.depthStencil.texture = t.ret, !.depthStencil.slice = 0],
        FirstPixelWidth(rts), FirstPixelHeight(rts), FALSE)

\* Lines 920-949.
BindTargets(g, rts) ==
    IF WantsTemporary(rts)
    THEN BindTemporary(getTemporaryTexture(g, TemporaryFormat(rts.temporaryRTFlags),
                                           FirstPixelWidth(rts), FirstPixelHeight(rts),
                                           getRequestedMSAA(getFirstTarget(rts).texture)),
                       rts, g.ret)
    ELSE setRenderTargetsInternal(g, rts, FirstPixelWidth(rts), FirstPixelHeight(rts), FALSE)

\* Lines 951-962.
StoreTargets(g, rts) ==
    [g EXCEPT !.states = SetTop(@, [Last(@) EXCEPT !.renderTargets = StoredRenderTargets(rts)]),
              !.renderTargetSwitchCount = (@ + 1) % SwitchCountWrap]

\* Lines 969-975.
ClearTemporary(g, rts) == IF WantsTemporary(rts) THEN clear(g, "none", 0, 1) ELSE g

\* Graphics::setRenderTargets(const RenderTargets &).
setRenderTargets(g, rts) ==
    IF getFirstTarget(rts).texture = "null" THEN setRenderTargetNone(g)
    ELSE IF ~RenderTargetsModified(rts, Last(g.states).renderTargets) THEN g
    ELSE IF RenderTargetsError(rts) # "none" THEN Throw(g, RenderTargetsError(rts))
    ELSE ClearTemporary(
           resetProjection(StoreTargets(BindTargets(flushBatchedDraws(g), rts), rts)),
           rts)

\* Graphics::getRenderTargets: the current set as plain targets.
getRenderTargets(g) ==
    [colors |-> [i \in 1..Len(Last(g.states).renderTargets.colors) |->
                   RenderTarget(Last(g.states).renderTargets.colors[i].texture,
                                Last(g.states).renderTargets.colors[i].slice,
                                Last(g.states).renderTargets.colors[i].mipmap)],
     depthStencil |-> RenderTarget(Last(g.states).renderTargets.depthStencil.texture,
                                   Last(g.states).renderTargets.depthStencil.slice,
                                   Last(g.states).renderTargets.depthStencil.mipmap),
     temporaryRTFlags |-> Last(g.states).renderTargets.temporaryRTFlags]

(***************************************************************************)
(* Scissor.  A Rect is [x, y, w, h] of int.                                *)
(***************************************************************************)
\* std::numeric_limits<int>::max()
IntMax == 2147483647

Rect(x, y, w, h) == [x |-> x, y |-> y, w |-> w, h |-> h]

\* The backend's setScissor(rect): draws what is pending, sets the scissor
\* rectangle of the backend and of the current state and enables it.
setScissor(g, rect) ==
    [Emit(flushBatchedDraws(g), "setScissor", rect)
       EXCEPT !.states = SetTop(@, [Last(@) EXCEPT !.scissor = TRUE, !.scissorRect = rect])]

\* The backend's setScissor(): draws what is pending and disables the scissor.
setScissorNone(g) ==
    [Emit(flushBatchedDraws(g), "setScissor", "none")
       EXCEPT !.states = SetTop(@, [Last(@) EXCEPT !.scissor = FALSE])]

\* Lines 1195-1203.
CurrentScissorRect(g) ==
    IF Last(g.states).scissor THEN Last(g.states).scissorRect
    ELSE Rect(0, 0, IntMax, IntMax)

\* Lines 1205-1211.
IntersectedRect(currect, rect) ==
    Rect(Max(currect.x, rect.x),
         Max(currect.y, rect.y),
         Max(0, Min(currect.x + currect.w, rect.x + rect.w) - Max(currect.x, rect.x)),
         Max(0, Min(currect.y + currect.h, rect.y + rect.h) - Max(currect.y, rect.y)))

\* intersectScissor that starts from the stored rectangle also when no
\* scissor is active.
intersectScissorStored(g, rect) ==
    setScissor(g, IntersectedRect(Last(g.states).scissorRect, rect))

\* Graphics::intersectScissor.
intersectScissor(g, rect) ==
    setScissor(g, IntersectedRect(CurrentScissorRect(g), rect))

\* Graphics::getScissor: the flag it returns and the rectangle it writes.
getScissor(g) ==
    [ret |-> Last(g.states).scissor, rect |-> Last(g.states).scissorRect]

(***************************************************************************)
(* Shaders.  "null" is no shader; ComputeShaders have a compute stage.     *)
(***************************************************************************)
ComputeShaders == {"compute1"}

hasStage(shader, stage) == (stage = "COMPUTE") = (shader \in ComputeShaders)

\* Shader::attach.
attach(g, shader) == [g EXCEPT !.shaderCurrent = shader]

\* Graphics::setShader(Shader *) and Graphics::setShader().
setShader(g, shader) ==
    IF shader = "null"
    THEN [attachDefault(g, "STANDARD_DEFAULT") EXCEPT
            !.states = SetTop(@, [Last(@) EXCEPT !.shader = "null"])]
    ELSE [attach(g, shader) EXCEPT
            !.states = SetTop(@, [Last(@) EXCEPT !.shader = shader])]

\* capabilities.limits[LIMIT_THREADGROUPS_X], _Y, _Z
LimitThreadgroups == 2

\* capabilities.features[FEATURE_GLSL3]
FeatureGLSL3 == TRUE

\* Lines 1567-1568: the shader attached before the dispatch is attached again.
ReattachShader(g, prevshader) ==
    IF prevshader # "null" THEN attach(g, prevshader) ELSE g

\* Lines 1570-1571.
DispatchResult(g, success) ==
    IF ~success THEN Throw(g, "resources not bound") ELSE g

\* The dispatch that leaves the compute shader attached.
DispatchFlushedKeepShader(g, shader, x, y, z, success) ==
    DispatchResult(Emit(attach(g, shader), "dispatch", <<x, y, z>>), success)

\* Lines 1562-1571: dispatchThreadgroups after its flush.
DispatchFlushed(g, shader, x, y, z, success) ==
    DispatchResult(
        ReattachShader(Emit(attach(g, shader), "dispatch", <<x, y, z>>), g.shaderCurrent),
        success)

\* Graphics::dispatchThreadgroups; success is what the backend's dispatch
\* returns.
dispatchThreadgroups(g, shader, x, y, z, success) ==
    IF ~hasStage(shader, "COMPUTE") THEN Throw(g, "only compute shaders")
    ELSE IF x <= 0 \/ y <= 0 \/ z <= 0 THEN Throw(g, "dispatch size must be positive")
    ELSE IF x > LimitThreadgroups \/ y > LimitThreadgroups \/ z > LimitThreadgroups
         THEN Throw(g, "too many threadgroups")
    ELSE DispatchFlushed(flushBatchedDraws(g), shader, x, y, z, success)

\* Lines 1865-1899: the indexed drawShaderVertices after its flush.
DrawIndexedFlushed(g, indexbuffer, indexcount, instancecount, startindex, maintexture) ==
    IF ~FeatureGLSL3 THEN Throw(g, "GLSL3 required")
    ELSE IF ~indexbuffer.index THEN Throw(g, "not an index buffer")
    ELSE IF startindex < 0 THEN Throw(g, "negative startindex")
    ELSE IF indexcount < 0 \/ instancecount < 0 THEN Throw(g, "negative count")
    ELSE IF startindex + indexcount > indexbuffer.length THEN Throw(g, "does not fit")
    ELSE IF isDefaultActive(g) \/ g.shaderCurrent = "null" THEN Throw(g, "custom shader required")
    ELSE Emit(g, "drawShaderVertices",
              [indexed |-> TRUE, primitiveType |-> "TRIANGLES", count |-> indexcount,
               instanceCount |-> Max(1, instancecount), texture |-> maintexture])

\* Graphics::drawShaderVertices(Buffer *indexbuffer, ...).  indexbuffer is
\* [null: no buffer, index: it has the index usage flag, length: the indices
\* it holds].
drawShaderVerticesIndexed(g, indexbuffer, indexcount, instancecount, startindex, maintexture) ==
    DrawIndexedFlushed(flushBatchedDraws(g), indexbuffer, indexcount, instancecount,
                       startindex, maintexture)

\* Lines 1837-1858: the non-indexed drawShaderVertices after its flush.
DrawFlushed(g, primtype, vertexcount, instancecount, maintexture) ==
    IF ~FeatureGLSL3 THEN Throw(g, "GLSL3 required")
    ELSE IF isDefaultActive(g) \/ g.shaderCurrent = "null" THEN Throw(g, "custom shader required")
    ELSE IF vertexcount < 0 \/ instancecount < 0 THEN Throw(g, "negative count")
    ELSE Emit(g, "drawShaderVertices",
              [indexed |-> FALSE, primitiveType |-> primtype, count |-> vertexcount,
               instanceCount |-> Max(1, instancecount), texture |-> maintexture])

\* Graphics::drawShaderVertices(PrimitiveType, ...).  fanIndexBuffer is what
\* getFanIndexBuffer returns.
drawShaderVertices(g, primtype, vertexcount, instancecount, maintexture, fanIndexBuffer) ==
    IF primtype = "TRIANGLE_FAN" /\ vertexcount > LOVE_UINT16_MAX
    THEN Throw(g, "too many fan vertices")
    ELSE IF primtype = "TRIANGLE_FAN" /\ ~fanIndexBuffer.null
    THEN drawShaderVerticesIndexed(g, fanIndexBuffer, getIndexCount("FAN", vertexcount),
                                   instancecount, 0, maintexture)
    ELSE DrawFlushed(flushBatchedDraws(g), primtype, vertexcount, instancecount, maintexture)

\* capabilities.features[FEATURE_COPY_BUFFER]
FeatureCopyBuffer == TRUE

\* Range(offset, size).getMax(): the last byte of the range.
RangeMax(offset, size) == offset + size - 1

\* Ranges that intersect only when they start at the same byte.
RangesIntersectAtStart(offset1, offset2, size) == offset1 = offset2

\* Range::intersects.
RangesIntersect(offset1, offset2, size) ==
    ~(offset1 > RangeMax(offset2, size) \/ RangeMax(offset1, size) < offset2)

\* Graphics::copyBuffer with the capability of the backend as a parameter
\* (capabilities.features[FEATURE_COPY_BUFFER]).  A buffer is
\* [name, size, datausage, immutable].
copyBufferWith(g, supported, source, dest, sourceoffset, destoffset, size) ==
    IF ~supported THEN Throw(g, "buffer copying not supported")
    ELSE IF dest.datausage = "STREAM" THEN Throw(g, "stream buffer as copy destination")
    ELSE IF source.datausage = "READBACK" THEN Throw(g, "readback buffer as copy source")
    ELSE IF RangeMax(sourceoffset, size) >= source.size THEN Throw(g, "source range does not fit")
    ELSE IF RangeMax(destoffset, size) >= dest.size THEN Throw(g, "destination range does not fit")
    ELSE IF source = dest /\ RangesIntersect(sourceoffset, destoffset, size)
         THEN Throw(g, "overlapping ranges")
    ELSE IF dest.immutable THEN Throw(g, "immutable destination")
    ELSE Emit(g, "copyTo", [source |-> source.name, dest |-> dest.name,
                            sourceoffset |-> sourceoffset, destoffset |-> destoffset,
                            size |-> size])

\* Graphics::copyBuffer on a backend that supports buffer copies.
copyBuffer(g, source, dest, sourceoffset, destoffset, size) ==
    copyBufferWith(g, FeatureCopyBuffer, source, dest, sourceoffset, destoffset, size)

(***************************************************************************)
(* Saving and restoring the display state.                                 *)
(***************************************************************************)
\* Graphics::origin.
origin(g) ==
    [g EXCEPT !.transformStack = SetTop(@, "identity"),
              !.pixelScaleStack = SetTop(@, 1)]

\* Matrix4::translate and Matrix4::scale: the matrix is written as the
\* calls made on it since it was the identity.
Translated(m, x, y) == m \o ".translate(" \o ToString(x) \o "," \o ToString(y) \o ")"

Scaled(m, x, y) == m \o ".scale(" \o ToString(x) \o "," \o ToString(y) \o ")"

\* fabs.
Fabs(x) == IF x < 0 THEN -x ELSE x

\* Graphics::translate.
translate(g, x, y) ==
    [g EXCEPT !.transformStack = SetTop(@, Translated(Last(@), x, y))]

\* Graphics::scale, for x and y whose magnitudes have an even sum.
scale(g, x, y) ==
    [g EXCEPT !.transformStack = SetTop(@, Scaled(Last(@), x, y)),
              !.pixelScaleStack = SetTop(@, Last(@) * ((Fabs(x) + Fabs(y)) \div 2))]

\* Lines 624-627: the projection of restoreState.
RestoreStateProjection(g, s) ==
    IF Threw(g) THEN g
    ELSE IF s.useCustomProjection THEN updateDeviceProjection(g, s.customProjection)
    ELSE resetProjection(g)

\* Graphics::restoreState.
restoreState(g, s) ==
    RestoreStateProjection(
        setRenderTargets(setShader(setColor(g, s.color), s.shader), s.renderTargets), s)

\* Line 584.
OriginUnlessThrown(g) == IF Threw(g) THEN g ELSE origin(g)

resetWithoutOrigin(g) == restoreState(g, DefaultDisplayState)

\* Graphics::reset.
reset(g) == OriginUnlessThrown(restoreState(g, DefaultDisplayState))

\* Lines 634-635.
RestoreColor(g, s) ==
    IF s.color # Last(g.states).color THEN setColor(g, s.color) ELSE g

\* Lines 666-689.
RestoreTargets(g, s) ==
    IF RenderTargetsModified(s.renderTargets, Last(g.states).renderTargets)
    THEN setRenderTargets(g, s.renderTargets)
    ELSE g

\* Lines 705-708.  cur refers to the current state, so its
\* useCustomProjection is read after setRenderTargets has run.
RestoreProjection(g, s) ==
    IF Threw(g) THEN g
    ELSE IF s.useCustomProjection THEN setCustomProjection(g, s.customProjection)
    ELSE IF Last(g.states).useCustomProjection THEN resetProjection(g)
    ELSE g

\* Graphics::restoreStateChecked.
restoreStateChecked(g, s) ==
    RestoreProjection(RestoreTargets(setShader(RestoreColor(g, s), s.shader), s), s)

\* Lines 2293-2294.
PushState(g, type) ==
    IF type = "ALL" THEN [g EXCEPT !.states = Append(@, Last(@))] ELSE g

\* push that refuses only above the maximum depth.
pushAboveLimit(g, type) ==
    IF Len(g.stackTypeStack) > MAX_USER_STACK_DEPTH THEN Throw(g, "maximum stack depth")
    ELSE [PushState([pushTransform(g) EXCEPT !.pixelScaleStack = Append(@, Last(@))], type)
            EXCEPT !.stackTypeStack = Append(@, type),
                   !.pushLog = Append(@, [state |-> Last(g.states),
                                          boundRTs |-> g.boundRTs,
                                          deviceProjectionMatrix |-> g.deviceProjectionMatrix,
                                          transform |-> Last(g.transformStack),
                                          pixelScale |-> Last(g.pixelScaleStack)])]

\* Graphics::push.  pushLog keeps, for each outstanding push, the state, the
\* transform and the pixel scale of that moment and what the backend had
\* bound.
push(g, type) ==
    IF Len(g.stackTypeStack) = MAX_USER_STACK_DEPTH THEN Throw(g, "maximum stack depth")
    ELSE [PushState([pushTransform(g) EXCEPT !.pixelScaleStack = Append(@, Last(@))], type)
            EXCEPT !.stackTypeStack = Append(@, type),
                   !.pushLog = Append(@, [state |-> Last(g.states),
                                          boundRTs |-> g.boundRTs,
                                          deviceProjectionMatrix |-> g.deviceProjectionMatrix,
                                          transform |-> Last(g.transformStack),
                                          pixelScale |-> Last(g.pixelScaleStack)])]

\* A pop that keeps the pixel scale of the popped level.
KeepPixelScale(g) == g

\* Line 2305.
PopPixelScale(g) == [g EXCEPT !.pixelScaleStack = Front(@)]

\* Lines 2307-2311: the state below the top is restored.
RestoreOnPop(g) ==
    IF Last(g.stackTypeStack) = "ALL"
    THEN restoreStateChecked(g, g.states[Len(g.states) - 1])
    ELSE g

\* Lines 2313-2317.
FinishPop(g) ==
    IF Threw(g) THEN g
    ELSE [g EXCEPT !.states = IF Last(g.stackTypeStack) = "ALL" THEN Front(@) ELSE @,
                   !.stackTypeStack = Front(@),
                   !.pushLog = Front(@)]

\* pop with the depth check made after the transform was popped.
popLateCheck(g) ==
    IF Len(g.stackTypeStack) < 1
    THEN Throw(PopPixelScale(popTransform(g)), "minimum stack depth")
    ELSE FinishPop(RestoreOnPop(PopPixelScale(popTransform(g))))

\* Graphics::pop.
pop(g) ==
    IF Len(g.stackTypeStack) < 1 THEN Throw(g, "minimum stack depth")
    ELSE FinishPop(RestoreOnPop(PopPixelScale(popTransform(g))))

(***************************************************************************)
(* State.  One variable per data member of Graphics, the backend's side    *)
(* (what is bound, Shader::current), and the record of the last call.      *)
(***************************************************************************)
VARIABLES
    states,                  \* std::vector<DisplayState>
    transformStack,          \* std::vector<Matrix4>
    pixelScaleStack,         \* std::vector<double>
    stackTypeStack,          \* std::vector<StackType>
    batchedDrawState,        \* BatchedDrawState
    deviceProjectionMatrix,  \* Matrix4
    renderTargetSwitchCount, \* int
    temporaryTextures,       \* std::vector<TemporaryTexture>
    temporaryBuffers,        \* std::vector<TemporaryBuffer>
    boundRTs,                \* what setRenderTargetsInternal bound last
    shaderCurrent,           \* Shader::current
    call,                    \* the last call: name, argument, error, backend calls, result
    nreq,                    \* requests made so far (SpecBatch)
    reqLog,                  \* their commands, by request number
    drawLog,                 \* the draw calls flushBatchedDraws issued so far
    pushLog,                 \* what was bound when each outstanding push was made
    currentFrame,            \* vulkan::Graphics: the frame slot in use
    inFlightFences,          \* by slot: whether its completion fence is signalled
    cleanUpFunctions,        \* by slot: the cleanup callbacks queued
    slotState,               \* by slot: Idle, Recording or Submitted
    cpu,                     \* where the thread is: idle, in beginFrame's wait, recording
    beginCount,              \* calls of beginFrame so far
    pendingFrames,           \* the frames submitted and not completed by the GPU
    cleanUpLog,              \* by callback: where it was queued and how it has run
    commandBuffers,          \* by slot: the commands recorded in its command buffer
    renderPasses,            \* vulkan::Graphics: the render passes by configuration
    framebuffers,            \* vulkan::Graphics: the framebuffers by configuration
    graphicsPipelines,       \* vulkan::Graphics: the pipelines by configuration
    lookup,                  \* the last lookup: cache, configuration, handle, objects created
    cachedShaderStages,      \* by stage type: the cached stages by cache key
    shaderStages,            \* the ShaderStage objects created, in order
    stageCall,               \* the last call about shader stages and what it returned
    pendingReadbacks,        \* std::vector<StrongRef<GraphicsReadback>>
    readbacks,               \* the readbacks made, in order: method, whether the GPU is done
    readbackCall,            \* the last call about readbacks: the queue before, the polls
    graphicsInstance,        \* Module::getInstance<Graphics>(M_GRAPHICS): a backend or none
    backendsAlive,           \* the backend objects created and not released
    instanceCall,            \* the last createInstance: its inputs, the backends tried, the result
    glCapabilities,          \* OpenGL: the versions, extensions and bugs found by initContext
    conversion,              \* the last convertPixelFormat: its arguments and results
    previousConversion,      \* the convertPixelFormat before the last
    boundBuffers,            \* OpenGL state.boundBuffers, by BufferUsage
    boundIndexedBuffers,     \* OpenGL state.boundIndexedBuffers, by BufferUsage
    boundFramebuffers,       \* OpenGL state.boundFramebuffers: draw, read
    boundTextures,           \* OpenGL state.boundTextures, by texture type and unit
    curTextureUnit,          \* OpenGL state.curTextureUnit
    context,                 \* the GL context: what is bound in it, its active texture unit
    glCall                   \* the last call of OpenGL: name, arguments, GL calls made

\* The variables of the Vulkan backend's frame slots.
frameVars == <<currentFrame, inFlightFences, cleanUpFunctions, slotState, cpu, beginCount,
               pendingFrames, cleanUpLog, commandBuffers>>

\* The variables of Graphics.
graphicsVars == <<states, transformStack, pixelScaleStack, stackTypeStack, batchedDrawState,
                  deviceProjectionMatrix, renderTargetSwitchCount, temporaryTextures,
                  temporaryBuffers, boundRTs, shaderCurrent, call, nreq, reqLog, drawLog,
                  pushLog>>

\* The object caches of the Vulkan backend.
cacheVars == <<renderPasses, framebuffers, graphicsPipelines, lookup>>

\* The shader stages of Graphics.
stageVars == <<cachedShaderStages, shaderStages, stageCall>>

\* The readbacks of Graphics.
readbackVars == <<pendingReadbacks, readbacks, readbackCall>>

\* The graphics module instance.
instanceVars == <<graphicsInstance, backendsAlive, instanceCall>>

\* The OpenGL context's capabilities and its format conversions.
formatVars == <<glCapabilities, conversion, previousConversion>>

\* The state tracker of the OpenGL wrapper and the GL context it shadows.
contextVars == <<boundBuffers, boundIndexedBuffers, boundFramebuffers, boundTextures,
                 curTextureUnit, context, glCall>>

\* The variables outside the drawing state and the frame slots.
serviceVars == <<cacheVars, stageVars, readbackVars, instanceVars, formatVars>>

vars == <<graphicsVars, frameVars, contextVars, serviceVars, contextVars>>

\* The record the operators work on, at the start of a call.
G(track) ==
    [states |-> states,
     transformStack |-> transformStack,
     pixelScaleStack |-> pixelScaleStack,
     stackTypeStack |-> stackTypeStack,
     batchedDrawState |-> batchedDrawState,
     deviceProjectionMatrix |-> deviceProjectionMatrix,
     renderTargetSwitchCount |-> renderTargetSwitchCount,
     temporaryTextures |-> temporaryTextures,
     temporaryBuffers |-> temporaryBuffers,
     boundRTs |-> boundRTs,
     shaderCurrent |-> shaderCurrent,
     nreq |-> nreq,
     reqLog |-> reqLog,
     drawLog |-> drawLog,
     pushLog |-> pushLog,
     track |-> track,
     err |-> "none",
     ev |-> <<>>,
     ret |-> <<>>]

\* The state after a call that ended in g.
Commit(g, op, arg) ==
    /\ states' = g.states
    /\ transformStack' = g.transformStack
    /\ pixelScaleStack' = g.pixelScaleStack
    /\ stackTypeStack' = g.stackTypeStack
    /\ batchedDrawState' = g.batchedDrawState
    /\ deviceProjectionMatrix' = g.deviceProjectionMatrix
    /\ renderTargetSwitchCount' = g.renderTargetSwitchCount
    /\ temporaryTextures' = g.temporaryTextures
    /\ temporaryBuffers' = g.temporaryBuffers
    /\ boundRTs' = g.boundRTs
    /\ shaderCurrent' = g.shaderCurrent
    /\ nreq' = g.nreq
    /\ reqLog' = g.reqLog
    /\ drawLog' = g.drawLog
    /\ pushLog' = g.pushLog
    /\ call' = [op |-> op, arg |-> arg, err |-> g.err, ev |-> g.ev, ret |-> g.ret]
    /\ UNCHANGED <<frameVars, serviceVars, contextVars>>

\* BufferUsage, without BUFFERUSAGE_MAX_ENUM.
BufferUsages ==
    {"BUFFERUSAGE_VERTEX", "BUFFERUSAGE_INDEX", "BUFFERUSAGE_TEXEL", "BUFFERUSAGE_SHADER_STORAGE"}

\* OpenGL::getGLBufferType.
getGLBufferType(usage) ==
    CASE usage = "BUFFERUSAGE_VERTEX" -> "GL_ARRAY_BUFFER"
      [] usage = "BUFFERUSAGE_INDEX" -> "GL_ELEMENT_ARRAY_BUFFER"
      [] usage = "BUFFERUSAGE_TEXEL" -> "GL_TEXTURE_BUFFER"
      [] usage = "BUFFERUSAGE_SHADER_STORAGE" -> "GL_SHADER_STORAGE_BUFFER"
      [] OTHER -> "GL_ZERO"

\* The texture types of the model, and TEXTURE_MAX_ENUM for buffer textures.
TextureTypes == {"TEXTURE_2D", "TEXTURE_CUBE", "TEXTURE_MAX_ENUM"}

\* OpenGL::getGLTextureType.
getGLTextureType(type) ==
    CASE type = "TEXTURE_2D" -> "GL_TEXTURE_2D"
      [] type = "TEXTURE_VOLUME" -> "GL_TEXTURE_3D"
      [] type = "TEXTURE_2D_ARRAY" -> "GL_TEXTURE_2D_ARRAY"
      [] type = "TEXTURE_CUBE" -> "GL_TEXTURE_CUBE_MAP"
      [] type = "TEXTURE_MAX_ENUM" -> "GL_TEXTURE_BUFFER"
      [] OTHER -> "GL_ZERO"

\* The indexed binding points a buffer usage has (lines 259-260).
IndexedBindings(usage) ==
    IF usage = "BUFFERUSAGE_SHADER_STORAGE" THEN maxShaderStorageBufferBindings ELSE 0

\* A new GL context: nothing is bound, unit 0 is active.
NewContext ==
    [bufferBinding |-> [t \in {getGLBufferType(u) : u \in BufferUsages} |-> 0],
     indexedBufferBinding |->
        [t \in {getGLBufferType(u) : u \in BufferUsages} |->
            [k \in 1..(IF t = "GL_SHADER_STORAGE_BUFFER"
                       THEN maxShaderStorageBufferBindings ELSE 0) |-> 0]],
     framebufferBinding |-> [GL_DRAW_FRAMEBUFFER |-> 0, GL_READ_FRAMEBUFFER |-> 0],
     activeTexture |-> 0,
     textureBinding |->
        [t \in {getGLTextureType(type) : type \in TextureTypes} |->
            [k \in 1..maxTextureUnits |-> 0]]]

\* ShaderStageType: the indices of cachedShaderStages.
ShaderStageTypes == {"SHADERSTAGE_VERTEX", "SHADERSTAGE_PIXEL", "SHADERSTAGE_COMPUTE"}

\* The frame slots: the indices of inFlightFences and cleanUpFunctions.
Slots == 0 .. MAX_FRAMES_IN_FLIGHT - 1

\* Graphics::Graphics() followed by the backend's setMode.  The fences are
\* created signalled: the first use of a slot does not wait.  The OpenGL
\* state is that after setupContext: the default framebuffer 0 is bound.
Init ==
    /\ states = <<DefaultDisplayState>>
    /\ transformStack = <<"identity">>
    /\ pixelScaleStack = <<1>>
    /\ stackTypeStack = <<>>
    /\ batchedDrawState = InitBatchedDrawState
    /\ deviceProjectionMatrix = computeDeviceProjection(ortho(Screen.w, Screen.h), FALSE)
    /\ renderTargetSwitchCount = 0
    /\ temporaryTextures = <<>>
    /\ temporaryBuffers = <<>>
    /\ boundRTs = DefaultRenderTargets
    /\ shaderCurrent = "STANDARD_DEFAULT"
    /\ call = [op |-> "init", arg |-> <<>>, err |-> "none", ev |-> <<>>, ret |-> <<>>]
    /\ nreq = 0
    /\ reqLog = <<>>
    /\ drawLog = <<>>
    /\ pushLog = <<>>
    /\ currentFrame = 0
    /\ inFlightFences = [s \in Slots |-> TRUE]
    /\ cleanUpFunctions = [s \in Slots |-> <<>>]
    /\ slotState = [s \in Slots |-> "Idle"]
    /\ cpu = "idle"
    /\ beginCount = 0
    /\ pendingFrames = {}
    /\ cleanUpLog = <<>>
    /\ commandBuffers = [s \in Slots |-> <<>>]
    /\ renderPasses = {}
    /\ framebuffers = {}
    /\ graphicsPipelines = {}
    /\ lookup = [cache |-> "none", configuration |-> <<>>, handle |-> 0, created |-> 0]
    /\ cachedShaderStages = [type \in ShaderStageTypes |-> {}]
    /\ shaderStages = <<>>
    /\ stageCall = [op |-> "none"]
    /\ pendingReadbacks = <<>>
    /\ readbacks = <<>>
    /\ readbackCall = [op |-> "none"]
    /\ graphicsInstance = "none"
    /\ backendsAlive = 0
    /\ instanceCall = [op |-> "none"]
    /\ glCapabilities = [ES2 |-> FALSE, ES3 |-> FALSE, textureRG |-> TRUE, ETC2 |-> TRUE,
                         brokenR8PixelFormat |-> FALSE, texStorage |-> TRUE]
    /\ conversion = [op |-> "none"]
    /\ previousConversion = [op |-> "none"]
    /\ boundBuffers = [usage \in BufferUsages |-> 0]
    /\ boundIndexedBuffers = [usage \in BufferUsages |-> [k \in 1..IndexedBindings(usage) |-> 0]]
    /\ boundFramebuffers = <<0, 0>>
    /\ boundTextures = [type \in TextureTypes |-> [k \in 1..maxTextureUnits |-> 0]]
    /\ curTextureUnit = 0
    /\ context = NewContext
    /\ glCall = [op |-> "setupContext", arg |-> <<>>, calls |-> <<>>]

(***************************************************************************)
(* SpecBatch: the accumulator under sequences of requests and flushes.     *)
(***************************************************************************)
BatchedDrawCommand(primitiveMode, formats, indexMode, vertexCount, texture, standardShaderType) ==
    [primitiveMode |-> primitiveMode, formats |-> formats, indexMode |-> indexMode,
     vertexCount |-> vertexCount, texture |-> texture,
     standardShaderType |-> standardShaderType]

\* The commands the drawing functions make: filled polygons (polygon, arc,
\* ellipse, rectangle: a fan of at least 2 vertices), points, plain
\* triangles and textured quads.
BatchCommands ==
    {BatchedDrawCommand("TRIANGLES", <<"XYf", "RGBAub">>, "FAN", n, "none", "STANDARD_DEFAULT") :
        n \in {2, 3, 5, 65533, 65537}}
    \cup {BatchedDrawCommand("TRIANGLES", <<"XYZf", "RGBAub">>, "FAN", 3, "none", "STANDARD_DEFAULT")}
    \cup {BatchedDrawCommand("POINTS", <<"XYf", "RGBAub">>, "NONE", n, "none", "STANDARD_POINTS") :
        n \in {0, 1, 100}}
    \cup {BatchedDrawCommand("TRIANGLES", <<"XYf", "RGBAub">>, "NONE", 3, "none", "STANDARD_DEFAULT")}
    \cup {BatchedDrawCommand("TRIANGLES", <<"XYf_STf_RGBAub", "NONE">>, "QUADS", n, t, "STANDARD_DEFAULT") :
        n \in {4, 8}, t \in {"tex1", "tex2"}}

RequestBatchedDraw ==
    /\ nreq < MaxRequests
    /\ \E cmd \in BatchCommands :
          Commit(requestBatchedDraw(G(TRUE), cmd), "requestBatchedDraw", cmd)

FlushBatchedDraws ==
    Commit(flushBatchedDraws(G(TRUE)), "flushBatchedDraws", <<>>)

NextBatch == RequestBatchedDraw \/ FlushBatchedDraws

SpecBatch == Init /\ [][NextBatch]_vars

(***************************************************************************)
(* SpecStack: sequences of push and pop, nothing else.                     *)
(***************************************************************************)
StackTypes == {"ALL", "TRANSFORM"}

Push ==
    \E type \in StackTypes : Commit(push(G(FALSE), type), "push", type)

Pop ==
    Commit(pop(G(FALSE)), "pop", <<>>)

NextStack == Push \/ Pop

SpecStack == Init /\ [][NextStack]_vars

(***************************************************************************)
(* Inputs of the specifications below.                                     *)
(***************************************************************************)
Colors == {White, "red"}

Shaders == {"null", "shader1"}

Projections == {custom("perspective1")}

Target(colors, depthStencil, temporaryRTFlags) ==
    [colors |-> colors, depthStencil |-> depthStencil, temporaryRTFlags |-> temporaryRTFlags]

\* One colour texture; with a depth texture at the mipmap of its size; with
\* a temporary depth buffer; a depth texture alone.
TargetA == Target(<<RenderTarget("A", 0, 0)>>, NoTarget, {})

TargetAD == Target(<<RenderTarget("A", 0, 0)>>, RenderTarget("D", 0, 1), {})

TargetATemporary == Target(<<RenderTarget("A", 0, 0)>>, NoTarget, {TEMPORARY_RT_DEPTH})

TargetD == Target(<<>>, RenderTarget("D", 0, 1), {})

\* One colour texture with a colour texture, or a depth texture, of another size.
TargetAC == Target(<<RenderTarget("A", 0, 0), RenderTarget("C", 0, 0)>>, NoTarget, {})

TargetADLarge == Target(<<RenderTarget("A", 0, 0)>>, RenderTarget("D", 0, 0), {})

\* Sets the validation rejects for another reason: a texture that is no
\* render target, a mipmap out of range, a depth texture as colour target, a
\* colour texture as depth target, another format, another sample count,
\* more colour targets than the limit.
InvalidTargets ==
    {Target(<<RenderTarget("N", 0, 0)>>, NoTarget, {}),
     Target(<<RenderTarget("A", 0, 1)>>, NoTarget, {}),
     Target(<<RenderTarget("D", 0, 1)>>, NoTarget, {}),
     Target(<<RenderTarget("A", 0, 0)>>, RenderTarget("C", 0, 1), {}),
     Target(<<RenderTarget("A", 0, 0), RenderTarget("F", 0, 0)>>, NoTarget, {}),
     Target(<<RenderTarget("A", 0, 0), RenderTarget("M", 0, 0)>>, NoTarget, {}),
     Target(<<RenderTarget("A", 0, 0), RenderTarget("A", 0, 0), RenderTarget("A", 0, 0)>>,
            NoTarget, {})}

RenderTargetInputs ==
    {TargetA, TargetAD, TargetATemporary, TargetD, TargetAC, TargetADLarge} \cup InvalidTargets

FanCommand ==
    BatchedDrawCommand("TRIANGLES", <<"XYf", "RGBAub">>, "FAN", 3, "none", "STANDARD_DEFAULT")

PointsCommand ==
    BatchedDrawCommand("POINTS", <<"XYf", "RGBAub">>, "NONE", 1, "none", "STANDARD_POINTS")

FanIndexBuffers ==
    {[null |-> TRUE, index |-> FALSE, length |-> 0],
     [null |-> FALSE, index |-> TRUE, length |-> 3 * LOVE_UINT16_MAX]}

(***************************************************************************)
(* SpecTargets: render-target switches with a request in the accumulator.  *)
(***************************************************************************)
SetRenderTargets ==
    \E rts \in RenderTargetInputs :
        Commit(setRenderTargets(G(FALSE), rts), "setRenderTargets", rts)

SetRenderTarget ==
    Commit(setRenderTargetNone(G(FALSE)), "setRenderTarget", <<>>)

SetCustomProjection ==
    \E m \in Projections :
        Commit(setCustomProjection(G(FALSE), m), "setCustomProjection", m)

ResetProjection ==
    Commit(resetProjection(G(FALSE)), "resetProjection", <<>>)

\* At most one request is in the accumulator.
RequestOne ==
    /\ batchedDrawState.vertexCount = 0
    /\ \E cmd \in {FanCommand, PointsCommand} :
          Commit(requestBatchedDraw(G(FALSE), cmd), "requestBatchedDraw", cmd)

Flush ==
    Commit(flushBatchedDraws(G(FALSE)), "flushBatchedDraws", <<>>)

NextTargets ==
    \/ SetRenderTargets
    \/ SetRenderTarget
    \/ SetCustomProjection
    \/ ResetProjection
    \/ RequestOne
    \/ Flush

SpecTargets == Init /\ [][NextTargets]_vars

(***************************************************************************)
(* SpecRestore: the state setters between at most one push and its pop.    *)
(* A pop that fails halfway leaves the transform stack an entry short;     *)
(* the calls that would then read the top of an empty stack are left out.  *)
(***************************************************************************)
PushAll ==
    /\ stackTypeStack = <<>>
    /\ transformStack # <<>>
    /\ Commit(push(G(FALSE), "ALL"), "push", "ALL")

PopOne ==
    /\ transformStack # <<>>
    /\ Commit(pop(G(FALSE)), "pop", <<>>)

SetColor ==
    \E c \in Colors : Commit(setColor(G(FALSE), c), "setColor", c)

SetShader ==
    \E shader \in Shaders : Commit(setShader(G(FALSE), shader), "setShader", shader)

SetValidRenderTargets ==
    \E rts \in {TargetA, TargetAD, TargetATemporary, TargetD} :
        Commit(setRenderTargets(G(FALSE), rts), "setRenderTargets", rts)

NextRestore ==
    \/ PushAll
    \/ PopOne
    \/ SetColor
    \/ SetShader
    \/ SetValidRenderTargets
    \/ SetRenderTarget
    \/ SetCustomProjection
    \/ ResetProjection

SpecRestore == Init /\ [][NextRestore]_vars

(***************************************************************************)
(* SpecGfx: every call that switches the render targets, changes the       *)
(* device projection, dispatches or draws directly, with a request in the  *)
(* accumulator.                                                            *)
(***************************************************************************)
GfxSetRenderTargets ==
    \E rts \in {TargetAD, TargetATemporary} :
        Commit(setRenderTargets(G(FALSE), rts), "setRenderTargets", rts)

Reset ==
    /\ transformStack # <<>>
    /\ Commit(reset(G(FALSE)), "reset", <<>>)

DispatchThreadgroups ==
    \E shader \in ComputeShaders \cup {"shader1"}, x \in {0, 1, LimitThreadgroups + 1},
       success \in BOOLEAN :
        Commit(dispatchThreadgroups(G(FALSE), shader, x, 1, 1, success),
               "dispatchThreadgroups", <<>>)

DrawShaderVertices ==
    \E primtype \in {"TRIANGLES", "TRIANGLE_FAN"}, vertexcount \in {3, LOVE_UINT16_MAX + 1},
       fan \in FanIndexBuffers :
        Commit(drawShaderVertices(G(FALSE), primtype, vertexcount, 1, "none", fan),
               "drawShaderVertices", <<>>)

RequestFan ==
    /\ batchedDrawState.vertexCount = 0
    /\ Commit(requestBatchedDraw(G(FALSE), FanCommand), "requestBatchedDraw", <<>>)

NextGfx ==
    \/ PushAll
    \/ PopOne
    \/ SetShader
    \/ GfxSetRenderTargets
    \/ SetRenderTarget
    \/ SetCustomProjection
    \/ ResetProjection
    \/ Reset
    \/ DispatchThreadgroups
    \/ DrawShaderVertices
    \/ RequestFan
    \/ Flush

SpecGfx == Init /\ [][NextGfx]_vars

(***************************************************************************)
(* SpecErrors: the calls that can raise an error, with valid and invalid   *)
(* arguments, between pushes and pops and with a request in the            *)
(* accumulator.  A full-state push is made on the empty stack only, and a  *)
(* transform push only in the default display state.                       *)
(***************************************************************************)
PushAny ==
    /\ transformStack # <<>>
    /\ \E type \in StackTypes :
          /\ type = "ALL" => stackTypeStack = <<>>
          /\ type = "TRANSFORM" => states = <<DefaultDisplayState>>
          /\ Commit(push(G(FALSE), type), "push", type)

SetSomeRenderTargets ==
    \E rts \in {TargetA, TargetAC} :
        Commit(setRenderTargets(G(FALSE), rts), "setRenderTargets", rts)

SetOrthoProjection ==
    \E far \in {-10, 10} :
        Commit(setOrthoProjection(G(FALSE), Screen.w, Screen.h, -10, far),
               "setOrthoProjection", far)

SetPerspectiveProjection ==
    \E near \in {0, 1}, far \in {1, 10} :
        Commit(setPerspectiveProjection(G(FALSE), 1, 1, near, far),
               "setPerspectiveProjection", <<near, far>>)

CopyBuffers ==
    {[name |-> "static16", size |-> 16, datausage |-> "STATIC", immutable |-> FALSE],
     [name |-> "stream16", size |-> 16, datausage |-> "STREAM", immutable |-> FALSE],
     [name |-> "readback16", size |-> 16, datausage |-> "READBACK", immutable |-> FALSE],
     [name |-> "immutable16", size |-> 16, datausage |-> "STATIC", immutable |-> TRUE],
     [name |-> "static8", size |-> 8, datausage |-> "STATIC", immutable |-> FALSE]}

\* One pair of buffers and one destination offset for each outcome.
CopyPairs ==
    {<<"static16", "static16", 0, 8>>, <<"static16", "static16", 0, 0>>,
     <<"static16", "stream16", 0, 0>>, <<"readback16", "static16", 0, 0>>,
     <<"static8", "static16", 8, 0>>, <<"static16", "static8", 0, 8>>,
     <<"static16", "immutable16", 0, 0>>}

CopyBuffer ==
    \E source, dest \in CopyBuffers, sourceoffset, destoffset \in {0, 8} :
        /\ <<source.name, dest.name, sourceoffset, destoffset>> \in CopyPairs
        /\ Commit(copyBuffer(G(FALSE), source, dest, sourceoffset, destoffset, 8), "copyBuffer",
                  <<source.name, dest.name, sourceoffset, destoffset>>)

NextErrors ==
    \/ PushAny
    \/ PopOne
    \/ SetShader
    \/ SetSomeRenderTargets
    \/ SetOrthoProjection
    \/ SetPerspectiveProjection
    \/ DispatchThreadgroups
    \/ DrawShaderVertices
    \/ CopyBuffer
    \/ RequestFan

SpecErrors == Init /\ [][NextErrors]_vars

(***************************************************************************)
(* SpecNested: pushes of both kinds, nested MaxNesting deep, with changes  *)
(* of the transform, the colour and the render targets between them.  A    *)
(* transform is changed while it is at most one call from the identity.    *)
(***************************************************************************)
OneStepTransforms == {"identity", Translated("identity", 1, 0), Scaled("identity", 2, 2)}

PushNested ==
    /\ transformStack # <<>>
    /\ Len(stackTypeStack) < MaxNesting
    /\ \E type \in StackTypes : Commit(push(G(FALSE), type), "push", type)

Translate ==
    /\ transformStack # <<>>
    /\ Last(transformStack) \in OneStepTransforms
    /\ Commit(translate(G(FALSE), 1, 0), "translate", <<1, 0>>)

Scale ==
    /\ transformStack # <<>>
    /\ Last(transformStack) \in OneStepTransforms
    /\ \E x \in {2, -2} : Commit(scale(G(FALSE), x, 2), "scale", <<x, 2>>)

SetDepthRenderTarget ==
    Commit(setRenderTargets(G(FALSE), TargetAD), "setRenderTargets", TargetAD)

NextNested ==
    \/ PushNested
    \/ PopOne
    \/ Translate
    \/ Scale
    \/ SetColor
    \/ SetDepthRenderTarget
    \/ SetRenderTarget

SpecNested == Init /\ [][NextNested]_vars

(***************************************************************************)
(* SpecTemporary: the pools of temporary textures and buffers under        *)
(* acquires, releases of what is checked out, and the per-frame update.    *)
(***************************************************************************)
TextureShapes ==
    {[format |-> "DEPTH24", w |-> 4, h |-> 4, samples |-> 1],
     [format |-> "DEPTH24", w |-> 4, h |-> 8, samples |-> 1],
     [format |-> "STENCIL8", w |-> 4, h |-> 4, samples |-> 4]}

BufferShapes ==
    {[size |-> 16, format |-> "FLOAT", usageflags |-> "VERTEX", datausage |-> "STREAM"],
     [size |-> 32, format |-> "FLOAT", usageflags |-> "VERTEX", datausage |-> "STREAM"],
     [size |-> 16, format |-> "UINT16", usageflags |-> "INDEX", datausage |-> "DYNAMIC"]}

\* A new object is made only while fewer than MaxTemporary are alive.
MayAllocate == Len(temporaryTextures) + Len(temporaryBuffers) < MaxTemporary

GetTemporaryTexture ==
    \E s \in TextureShapes :
        /\ MayAllocate \/ TextureFits(temporaryTextures, s.format, s.w, s.h, s.samples, TRUE) # {}
        /\ Commit(getTemporaryTexture(G(FALSE), s.format, s.w, s.h, s.samples),
                  "getTemporaryTexture", s)

ReleaseTemporaryTexture ==
    \E i \in 1..Len(temporaryTextures) :
        /\ temporaryTextures[i].framesSinceUse < 0
        /\ Commit(releaseTemporaryTexture(G(FALSE), temporaryTextures[i].texture),
                  "releaseTemporaryTexture", temporaryTextures[i].texture)

GetTemporaryBuffer ==
    \E s \in BufferShapes :
        /\ MayAllocate
              \/ BufferFits(temporaryBuffers, s.size, s.format, s.usageflags, s.datausage) # {}
        /\ Commit(getTemporaryBuffer(G(FALSE), s.size, s.format, s.usageflags, s.datausage),
                  "getTemporaryBuffer", s)

ReleaseTemporaryBuffer ==
    \E i \in 1..Len(temporaryBuffers) :
        /\ temporaryBuffers[i].framesSinceUse < 0
        /\ Commit(releaseTemporaryBuffer(G(FALSE), temporaryBuffers[i].buffer),
                  "releaseTemporaryBuffer", temporaryBuffers[i].buffer)

UpdateTemporaryResources ==
    Commit(updateTemporaryResources(G(FALSE)), "updateTemporaryResources", <<>>)

NextTemporary ==
    \/ GetTemporaryTexture
    \/ ReleaseTemporaryTexture
    \/ GetTemporaryBuffer
    \/ ReleaseTemporaryBuffer
    \/ UpdateTemporaryResources

SpecTemporary == Init /\ [][NextTemporary]_vars

(***************************************************************************)
(* SpecTemporaryTargets: render-target switches that ask for a temporary   *)
(* depth/stencil buffer, between frames and returns to the screen, and the *)
(* choice of the buffer's format with and without 24-bit depth support.    *)
(***************************************************************************)
TemporaryFlags ==
    {{TEMPORARY_RT_DEPTH}, {TEMPORARY_RT_STENCIL}, {TEMPORARY_RT_DEPTH, TEMPORARY_RT_STENCIL}}

\* Colour targets of 4x4 pixels, of 4x4 pixels with 4 samples, and the 4x4
\* mipmap of an 8x8 texture.
TemporaryColors == {RenderTarget("A", 0, 0), RenderTarget("M", 0, 0), RenderTarget("C", 0, 1)}

\* The pool holds at most MaxTemporaryTargets textures.
SetTemporaryTargets ==
    \E c \in TemporaryColors, flags \in TemporaryFlags :
        /\ \/ Len(temporaryTextures) < MaxTemporaryTargets
           \/ TextureFits(temporaryTextures, TemporaryFormat(flags),
                          getPixelWidth(c.texture, c.mipmap), getPixelHeight(c.texture, c.mipmap),
                          getRequestedMSAA(c.texture), TRUE) # {}
        /\ Commit(setRenderTargets(G(FALSE), Target(<<c>>, NoTarget, flags)),
                  "setRenderTargets", Target(<<c>>, NoTarget, flags))

\* Lines 925-933 for given flags and support of 24-bit depth.
ChooseTemporaryFormat ==
    \E flags \in TemporaryFlags, depth24supported \in BOOLEAN :
        Commit([G(FALSE) EXCEPT !.ret = TemporaryFormatFor(flags, depth24supported)],
               "temporaryFormat", [flags |-> flags, depth24supported |-> depth24supported])

NextTemporaryTargets ==
    \/ SetTemporaryTargets
    \/ SetRenderTarget
    \/ UpdateTemporaryResources
    \/ ChooseTemporaryFormat

SpecTemporaryTargets == Init /\ [][NextTemporaryTargets]_vars

(***************************************************************************)
(* SpecFrames: the frame slots of the Vulkan backend.  The thread calls    *)
(* beginFrame, records (and queues cleanup callbacks), submits and moves   *)
(* to the next slot; the GPU completes the submitted frames in any order   *)
(* and signals the fence of the slot.  The thread goes on rendering until  *)
(* MaxFrames frames were begun and the GPU completes what is submitted.    *)
(***************************************************************************)
\* vkWaitForFences on the slot's fence returns when the fence is signalled.
waitForFenceNone(fences, slot) == TRUE

waitForFence(fences, slot) == fences[slot]

\* Graphics::queueCleanUp: the callback joins the list of the slot in use.
queueCleanUpNextSlot(functions, slot, cleanUp) ==
    [functions EXCEPT ![(slot + 1) % MAX_FRAMES_IN_FLIGHT] = Append(@, cleanUp)]

queueCleanUp(functions, slot, cleanUp) ==
    [functions EXCEPT ![slot] = Append(@, cleanUp)]

\* The commands a frame records: draws, compute dispatches and copies.
CommandKinds == {"draw", "dispatch", "copy"}

\* vkCmd*: the command joins the command buffer of the slot in use.
recordCommandNextSlot(buffers, slot, command) ==
    [buffers EXCEPT ![(slot + 1) % MAX_FRAMES_IN_FLIGHT] = Append(@, command)]

recordCommand(buffers, slot, command) ==
    [buffers EXCEPT ![slot] = Append(@, command)]

\* beginFrame resets the command buffer of the slot.
resetCommandBuffer(buffers, slot) == [buffers EXCEPT ![slot] = <<>>]

\* The slot after the one in use: currentFrame = (currentFrame + 1) %
\* MAX_FRAMES_IN_FLIGHT.
nextFrame(slot) == (slot + 1) % MAX_FRAMES_IN_FLIGHT

\* The callbacks in a list.
CleanUpsIn(list) == {list[i] : i \in 1..Len(list)}

\* A callback runs: it is counted, and it is early when the frame it was
\* queued in, or an earlier one, is still with the GPU.
RunCleanUp(entry, pending) ==
    [entry EXCEPT !.runs = @ + 1,
                  !.early = @ \/ \E p \in pending : p.frame <= entry.frame]

\* beginFrame is called: the thread waits for the fence of the slot.
BeginFrame ==
    /\ cpu = "idle"
    /\ beginCount < MaxFrames
    /\ cpu' = "beginFrame"
    /\ beginCount' = beginCount + 1
    /\ UNCHANGED <<currentFrame, inFlightFences, cleanUpFunctions, slotState, pendingFrames,
                   cleanUpLog, commandBuffers, graphicsVars, serviceVars, contextVars>>

\* The wait is over: the callbacks of the slot run, its command buffer is
\* reset and recording starts.
StartRecording ==
    /\ cpu = "beginFrame"
    /\ waitForFence(inFlightFences, currentFrame)
    /\ cleanUpLog' = [id \in DOMAIN cleanUpLog |->
                        IF id \in CleanUpsIn(cleanUpFunctions[currentFrame])
                        THEN RunCleanUp(cleanUpLog[id], pendingFrames)
                        ELSE cleanUpLog[id]]
    /\ cleanUpFunctions' = [cleanUpFunctions EXCEPT ![currentFrame] = <<>>]
    /\ commandBuffers' = resetCommandBuffer(commandBuffers, currentFrame)
    /\ slotState' = [slotState EXCEPT ![currentFrame] = "Recording"]
    /\ cpu' = "recording"
    /\ UNCHANGED <<currentFrame, inFlightFences, beginCount, pendingFrames, graphicsVars, serviceVars, contextVars>>

\* A resource used by the frame being recorded is given up.  Callbacks are
\* queued in the frames whose slot is begun again before the run ends.
QueueCleanUp ==
    /\ cpu = "recording"
    /\ Len(cleanUpLog) < MaxCleanUps
    /\ beginCount + MAX_FRAMES_IN_FLIGHT <= MaxFrames
    /\ cleanUpFunctions' = queueCleanUp(cleanUpFunctions, currentFrame, Len(cleanUpLog) + 1)
    /\ cleanUpLog' = Append(cleanUpLog, [slot |-> currentFrame, frame |-> beginCount,
                                         runs |-> 0, early |-> FALSE])
    /\ UNCHANGED <<currentFrame, inFlightFences, slotState, cpu, beginCount, pendingFrames,
                   commandBuffers, graphicsVars, serviceVars, contextVars>>

\* A draw, a compute dispatch or a copy while the frame is recorded: its
\* command joins the command buffer of the slot in use.  One command stands
\* for the commands of a frame.
RecordCommand ==
    \E command \in CommandKinds :
        /\ cpu = "recording"
        /\ commandBuffers[currentFrame] = <<>>
        /\ commandBuffers' = recordCommand(commandBuffers, currentFrame, command)
        /\ UNCHANGED <<currentFrame, inFlightFences, cleanUpFunctions, slotState, cpu,
                       beginCount, pendingFrames, cleanUpLog, graphicsVars, serviceVars, contextVars>>

\* Graphics::submitGpuCommands: the command buffer goes to the queue, to
\* signal the fence of the slot, and the next slot becomes the one in use.
SubmitGpuCommands ==
    /\ cpu = "recording"
    /\ inFlightFences' = [inFlightFences EXCEPT ![currentFrame] = FALSE]
    /\ slotState' = [slotState EXCEPT ![currentFrame] = "Submitted"]
    /\ pendingFrames' = pendingFrames \cup {[frame |-> beginCount, slot |-> currentFrame]}
    /\ currentFrame' = nextFrame(currentFrame)
    /\ cpu' = "idle"
    /\ UNCHANGED <<cleanUpFunctions, beginCount, cleanUpLog, commandBuffers, graphicsVars, serviceVars, contextVars>>

\* The GPU completes a submitted frame and signals the fence of its slot.
GpuComplete ==
    \E p \in pendingFrames :
        /\ pendingFrames' = pendingFrames \ {p}
        /\ inFlightFences' = [inFlightFences EXCEPT ![p.slot] = TRUE]
        /\ slotState' = [slotState EXCEPT ![p.slot] = IF @ = "Submitted" THEN "Idle" ELSE @]
        /\ UNCHANGED <<currentFrame, cleanUpFunctions, cpu, beginCount, cleanUpLog,
                       commandBuffers, graphicsVars, serviceVars, contextVars>>

NextFrames ==
    \/ BeginFrame
    \/ StartRecording
    \/ QueueCleanUp
    \/ RecordCommand
    \/ SubmitGpuCommands
    \/ GpuComplete

SpecFrames ==
    /\ Init
    /\ [][NextFrames]_vars
    /\ WF_vars(BeginFrame)
    /\ WF_vars(StartRecording)
    /\ WF_vars(SubmitGpuCommands)
    /\ WF_vars(GpuComplete)

(***************************************************************************)
(* SpecReset: reset() after changes of the colour, the shader, the render  *)
(* targets, the projection and the transform, inside and outside a         *)
(* push("all").                                                            *)
(***************************************************************************)
NextReset ==
    \/ PushAll
    \/ PopOne
    \/ Scale
    \/ SetColor
    \/ SetShader
    \/ SetSomeRenderTargets
    \/ SetCustomProjection
    \/ Reset

SpecReset == Init /\ [][NextReset]_vars

(***************************************************************************)
(* SpecPoints: points() with and without per-point colours, under changes  *)
(* of the draw colour and flushes.  Gamma correction is off.  A colour is  *)
(* white or red; a list of per-point colours is empty when the caller      *)
(* passes none.                                                            *)
(***************************************************************************)
\* The components of a colour, as Colorf.
Colorf(c) == IF c = White THEN <<1, 1, 1, 1>> ELSE <<1, 0, 0, 1>>

\* Colorf::operator*.
ColorProduct(a, b) == [k \in 1..4 |-> a[k] * b[k]]

\* toColor32: each component as a byte.
toColor32(c) == [k \in 1..4 |-> 255 * c[k]]

getSinglePositionFormat(is2D) == IF is2D THEN "XYf" ELSE "XYZf"

\* Lines 1937-1942.
PointsCommandOf(numpoints, is2D) ==
    BatchedDrawCommand("POINTS", <<getSinglePositionFormat(is2D), "RGBAub">>, "NONE",
                       numpoints, "none", "STANDARD_POINTS")

\* Lines 1951-1981: what is written through data.stream[1].
PointColors(color, colors, numpoints) ==
    IF colors # <<>>
    THEN [i \in 1..numpoints |-> toColor32(ColorProduct(Colorf(color), Colorf(colors[i])))]
    ELSE [i \in 1..numpoints |-> toColor32(Colorf(color))]

pointsInWhite(g, numpoints, colors, is2D) ==
    [requestBatchedDraw(g, PointsCommandOf(numpoints, is2D)) EXCEPT
        !.ret = [stream |-> @, colordata |-> PointColors(White, colors, numpoints)]]

\* Graphics::points.
points(g, numpoints, colors, is2D) ==
    [requestBatchedDraw(g, PointsCommandOf(numpoints, is2D)) EXCEPT
        !.ret = [stream |-> @, colordata |-> PointColors(getColor(g), colors, numpoints)]]

\* One point with or without a colour of its own, or 100 points without.
Points ==
    /\ nreq < MaxRequests
    /\ \E numpoints \in {1, 100}, colors \in {<<>>, <<"red">>}, is2D \in BOOLEAN :
          /\ colors # <<>> => Len(colors) = numpoints
          /\ Commit(points(G(TRUE), numpoints, colors, is2D), "points",
                    [numpoints |-> numpoints, colors |-> colors, is2D |-> is2D])

NextPoints ==
    \/ Points
    \/ SetColor
    \/ FlushBatchedDraws

SpecPoints == Init /\ [][NextPoints]_vars

(***************************************************************************)
(* SpecRectangles: filled rectangles, plain and rounded, under changes of  *)
(* the draw colour, the shader and the scale, and flushes.  Only the       *)
(* number of vertices of a shape is kept, not their positions.             *)
(***************************************************************************)
\* (int) sqrtf(n) for n >= 0.
ISqrt(n) == CHOOSE k \in 0..n : k * k <= n /\ (k + 1) * (k + 1) > n

\* Matrix4::isAffine2DTransform: the matrices of the model are built by
\* translate and scale from the identity.
isAffine2DTransform(m) == TRUE

\* Graphics::calculateEllipsePoints, for radii with an even sum.
calculateEllipsePoints(g, rx, ry) ==
    Max(ISqrt(((rx + ry) \div 2) * 20 * Last(g.pixelScaleStack)), 8)

\* Lines 2233-2239: the command of a filled polygon of count coordinates.
PolygonCommand(g, count, skipLastFilledVertex) ==
    BatchedDrawCommand("TRIANGLES",
                       <<getSinglePositionFormat(isAffine2DTransform(Last(g.transformStack))),
                         "RGBAub">>,
                       "FAN", count - (IF skipLastFilledVertex THEN 1 ELSE 0), "none",
                       "STANDARD_DEFAULT")

\* Lines 2248-2251: the draw colour for every vertex.
PolygonColors(g, cmd) == [i \in 1..cmd.vertexCount |-> toColor32(Colorf(getColor(g)))]

polygonAfterFlush(g, count, skipLastFilledVertex) ==
    [requestBatchedDraw(flushBatchedDraws(g), PolygonCommand(g, count, skipLastFilledVertex))
        EXCEPT !.ret = [stream |-> @,
                        colordata |-> PolygonColors(g, PolygonCommand(g, count, skipLastFilledVertex))]]

\* Graphics::polygon with DRAW_FILL.
polygon(g, count, skipLastFilledVertex) ==
    [requestBatchedDraw(g, PolygonCommand(g, count, skipLastFilledVertex))
        EXCEPT !.ret = [stream |-> @,
                        colordata |-> PolygonColors(g, PolygonCommand(g, count, skipLastFilledVertex))]]

\* Graphics::rectangle(mode, x, y, w, h) with DRAW_FILL: the four corners
\* and the first again; polygon leaves the closing vertex out of a fill.
rectangle(g, w, h) == polygon(g, 5, TRUE)

\* Graphics::rectangle(mode, x, y, w, h, rx, ry, points) with DRAW_FILL.
rectanglePoints(g, w, h, rx, ry, npoints) ==
    IF rx <= 0 \/ ry <= 0 THEN rectangle(g, w, h)
    ELSE polygon(g, (Max(npoints \div 4, 1) + 2) * 4 + 1, TRUE)

\* Graphics::rectangle(mode, x, y, w, h, rx, ry) with DRAW_FILL, for
\* non-negative w and h.
rectangleRounded(g, w, h, rx, ry) ==
    rectanglePoints(g, w, h, rx, ry,
                    calculateEllipsePoints(g, IF rx < w \div 2 THEN rx ELSE w \div 2,
                                              IF ry < h \div 2 THEN ry ELSE h \div 2))

\* The rectangles drawn: w, h, rx, ry.
RectangleShapes == {<<10, 10, 0, 0>>, <<10, 10, 2, 2>>, <<100, 100, 40, 40>>}

Rectangle ==
    /\ nreq < MaxRequests
    /\ \E shape \in RectangleShapes :
          Commit(rectangleRounded(G(TRUE), shape[1], shape[2], shape[3], shape[4]),
                 "rectangle", shape)

\* rectangle(mode, x, y, w, h), the overload without radii.
PlainRectangle ==
    /\ nreq < MaxRequests
    /\ Commit(rectangle(G(TRUE), 10, 10), "rectangle", <<10, 10>>)

ScaleUp ==
    /\ Last(transformStack) = "identity"
    /\ Commit(scale(G(FALSE), 2, 2), "scale", <<2, 2>>)

NextRectangles ==
    \/ Rectangle
    \/ PlainRectangle
    \/ SetColor
    \/ SetShader
    \/ ScaleUp
    \/ FlushBatchedDraws

SpecRectangles == Init /\ [][NextRectangles]_vars

(***************************************************************************)
(* SpecDispatch: compute dispatches with valid and invalid arguments, with *)
(* a custom or a standard shader current and a request in the accumulator. *)
(***************************************************************************)
DispatchWith ==
    \E shader \in ComputeShaders \cup {"shader1"}, x \in {0, 1, LimitThreadgroups + 1},
       y \in {1, LimitThreadgroups + 1}, z \in {0, 1}, success \in BOOLEAN :
        Commit(dispatchThreadgroups(G(FALSE), shader, x, y, z, success),
               "dispatchThreadgroups",
               [shader |-> shader, x |-> x, y |-> y, z |-> z, success |-> success])

NextDispatch ==
    \/ DispatchWith
    \/ SetShader
    \/ RequestOne
    \/ Flush

SpecDispatch == Init /\ [][NextDispatch]_vars

(***************************************************************************)
(* SpecCopy: buffer copies with every combination of capability, usages,  *)
(* offsets and sizes, between draws that are pending or flushed.           *)
(***************************************************************************)
CopyOffsets == {0, 4, 8}

CopySizes == {8, 16}

CopyBufferWith ==
    \E supported \in BOOLEAN, source, dest \in CopyBuffers,
       sourceoffset, destoffset \in CopyOffsets, size \in CopySizes :
        Commit(copyBufferWith(G(FALSE), supported, source, dest, sourceoffset, destoffset, size),
               "copyBufferWith",
               [supported |-> supported, source |-> source, dest |-> dest,
                sourceoffset |-> sourceoffset, destoffset |-> destoffset, size |-> size])

NextCopy ==
    \/ CopyBufferWith
    \/ RequestOne
    \/ Flush

SpecCopy == Init /\ [][NextCopy]_vars

(***************************************************************************)
(* SpecStackOps: push and pop of both kinds down to the minimum and up to  *)
(* the maximum depth, reset, the transform operations and flushes, with     *)
(* the colour changing and a batched draw pending or not.  Full-state      *)
(* pushes and transforms change near the bottom of the stack, the colour   *)
(* at its bottom.                                                          *)
(***************************************************************************)
PushDeep ==
    \E type \in StackTypes :
        /\ type = "ALL" => Len(stackTypeStack) < MaxNesting
        /\ Commit(push(G(FALSE), type), "push", type)

ScaleTop ==
    /\ Len(stackTypeStack) < MaxNesting
    /\ Last(transformStack) = "identity"
    /\ Commit(scale(G(FALSE), 2, 2), "scale", <<2, 2>>)

TranslateTop ==
    /\ Len(stackTypeStack) < MaxNesting
    /\ Last(transformStack) = "identity"
    /\ Commit(translate(G(FALSE), 1, 0), "translate", <<1, 0>>)

OriginTop ==
    /\ Len(stackTypeStack) < MaxNesting
    /\ Commit(origin(G(FALSE)), "origin", <<>>)

SetColorLow ==
    /\ stackTypeStack = <<>>
    /\ \E c \in Colors : Commit(setColor(G(FALSE), c), "setColor", c)

ResetAll ==
    Commit(reset(G(FALSE)), "reset", <<>>)

NextStackOps ==
    \/ PushDeep
    \/ Pop
    \/ ResetAll
    \/ ScaleTop
    \/ TranslateTop
    \/ OriginTop
    \/ SetColorLow
    \/ RequestFan
    \/ Flush

SpecStackOps == Init /\ [][NextStackOps]_vars

(***************************************************************************)
(* SpecScissor: setScissor with and without a rectangle and                *)
(* intersectScissor, with a batched draw pending or not.  Rectangles lie   *)
(* around the origin, with empty and negative extents among them.          *)
(***************************************************************************)
ScissorRects ==
    {Rect(x, y, w, h) : x \in {-2, 0, 3}, y \in {0, 1}, w \in {-1, 0, 2, 5}, h \in {0, 3}}

SetScissorRects == {Rect(0, 0, 5, 3), Rect(3, 1, 2, 3), Rect(-2, 0, 5, 3)}

SetScissor ==
    \E rect \in SetScissorRects : Commit(setScissor(G(FALSE), rect), "setScissor", rect)

SetScissorNone ==
    Commit(setScissorNone(G(FALSE)), "setScissor", "none")

IntersectScissor ==
    \E rect \in ScissorRects :
        Commit(intersectScissor(G(FALSE), rect), "intersectScissor", rect)

NextScissor ==
    \/ SetScissor
    \/ SetScissorNone
    \/ IntersectScissor
    \/ RequestFan
    \/ Flush

SpecScissor == Init /\ [][NextScissor]_vars

(***************************************************************************)
(* SpecCaches: the render-pass, framebuffer and pipeline caches of the     *)
(* Vulkan backend, std::unordered_map keyed by a configuration with the    *)
(* hashers and operator== of vulkan/Graphics.h.  A configuration is kept   *)
(* as the 4-byte words of its object; the bytes of padding after a bool    *)
(* are not written by any initializer or assignment of a member and hold   *)
(* whatever the build left there.                                          *)
(***************************************************************************)
\* What the three bytes of padding after a bool may hold: zero or not.
PaddingValues == {0, 1}

\* The names of formats and primitive types, in a fixed order; a word
\* holding one holds its place in the order.
EnumNames ==
    <<"VK_FORMAT_UNDEFINED", "VK_FORMAT_R8_UNORM", "VK_FORMAT_R8G8B8A8_UNORM",
      "VK_FORMAT_D24_UNORM_S8_UINT", "PRIMITIVE_TRIANGLES", "PRIMITIVE_POINTS">>

EnumWord(name) == CHOOSE i \in DOMAIN EnumNames : EnumNames[i] = name

\* The word of a bool and the three bytes of padding after it.
BoolWord(b, padding) == (IF b THEN 1 ELSE 0) + 2 * padding

RECURSIVE WordSum(_, _)
WordSum(words, i) ==
    IF i > Len(words) THEN 0 ELSE i * words[i] + WordSum(words, i + 1)

\* XXH32(data, size, 0): a value that depends on the bytes hashed and on
\* nothing else, out of HashRange values.
XXH32(words) == WordSum(words, 1) % HashRange

\* RenderPassAttachment: format, discard with its padding, msaaSamples.
RenderPassAttachment(format, discard, padding, msaaSamples) ==
    [format |-> format, discard |-> discard, padding |-> padding, msaaSamples |-> msaaSamples]

AttachmentWords(a) == <<EnumWord(a.format), BoolWord(a.discard, a.padding), a.msaaSamples>>

\* RenderPassAttachment::operator==.
AttachmentEquals(a, b) ==
    /\ a.format = b.format
    /\ a.discard = b.discard
    /\ a.msaaSamples = b.msaaSamples

RECURSIVE VectorWords(_)
VectorWords(attachments) ==
    IF attachments = <<>> THEN <<>>
    ELSE AttachmentWords(Head(attachments)) \o VectorWords(Tail(attachments))

\* StaticRenderPassConfiguration: depthAttachment, resolve with its padding.
StaticRenderPassWords(staticData) ==
    AttachmentWords(staticData.depthAttachment)
        \o <<BoolWord(staticData.resolve, staticData.padding)>>

\* RenderPassConfiguration::operator==: the vectors by operator== of their
\* elements, staticData by memcmp.
RenderPassConfigurationEquals(a, b) ==
    /\ Len(a.colorAttachments) = Len(b.colorAttachments)
    /\ \A i \in DOMAIN a.colorAttachments :
          AttachmentEquals(a.colorAttachments[i], b.colorAttachments[i])
    /\ StaticRenderPassWords(a.staticData) = StaticRenderPassWords(b.staticData)

\* RenderPassConfigurationHasher: size() * sizeof(VkFormat) bytes from the
\* start of the vector's data, that is its first size() words, and staticData.
RenderPassConfigurationHasher(configuration) ==
    XXH32(<<XXH32(SubSeq(VectorWords(configuration.colorAttachments), 1,
                         Len(configuration.colorAttachments))),
            XXH32(StaticRenderPassWords(configuration.staticData))>>)

\* StaticFramebufferConfiguration has no bool and no padding.
StaticFramebufferWords(staticData) ==
    <<staticData.depthView, staticData.resolveView, staticData.width, staticData.height,
      staticData.renderPass>>

\* FramebufferConfiguration::operator==.
FramebufferConfigurationEquals(a, b) ==
    /\ a.colorViews = b.colorViews
    /\ StaticFramebufferWords(a.staticData) = StaticFramebufferWords(b.staticData)

FramebufferConfigurationHasher(configuration) ==
    XXH32(<<XXH32(configuration.colorViews),
            XXH32(StaticFramebufferWords(configuration.staticData))>>)

\* GraphicsPipelineConfiguration: its constructor zeroes the whole object,
\* padding included, and the members are assigned one by one.
GraphicsPipelineWords(configuration) ==
    <<configuration.renderPass, configuration.shader, BoolWord(configuration.wireFrame, 0),
      EnumWord(configuration.primitiveType)>>

\* GraphicsPipelineConfiguration::operator==: memcmp of the objects.
GraphicsPipelineConfigurationEquals(a, b) ==
    GraphicsPipelineWords(a) = GraphicsPipelineWords(b)

GraphicsPipelineConfigurationHasher(configuration) == XXH32(GraphicsPipelineWords(configuration))

\* std::unordered_map::find: the entries whose key has the hash of the
\* configuration and is equal to it.
Find(cache, configuration, Equals(_, _), Hasher(_)) ==
    {e \in cache : /\ Hasher(e.configuration) = Hasher(configuration)
                   /\ Equals(e.configuration, configuration)}

\* A miss: one object is created and inserted under the configuration.
Insert(cache, configuration) ==
    cache \cup {[configuration |-> configuration, handle |-> Cardinality(cache) + 1]}

\* The cache after a lookup: unchanged when find succeeds.
Lookup(cache, configuration, Equals(_, _), Hasher(_)) ==
    IF Find(cache, configuration, Equals, Hasher) # {} THEN cache
    ELSE Insert(cache, configuration)

\* The handle a lookup returns.
Handle(cache, configuration, Equals(_, _), Hasher(_)) ==
    (CHOOSE e \in Find(Lookup(cache, configuration, Equals, Hasher), configuration,
                       Equals, Hasher) : TRUE).handle

\* What is recorded of a lookup.
Looked(name, before, after, configuration, handle) ==
    [cache |-> name, configuration |-> configuration, handle |-> handle,
     created |-> Cardinality(after) - Cardinality(before)]

\* One or two colour attachments with a depth attachment; the
\* padding of the first colour attachment and of staticData varies.
RenderPassConfigurations ==
    {[colorAttachments |-> colors,
      staticData |-> [depthAttachment |-> RenderPassAttachment(depth, TRUE, 0, 1),
                      resolve |-> FALSE, padding |-> p]] :
        colors \in {<<RenderPassAttachment("VK_FORMAT_R8G8B8A8_UNORM", TRUE, q, 1)>> :
                        q \in PaddingValues}
               \cup {<<RenderPassAttachment("VK_FORMAT_R8G8B8A8_UNORM", TRUE, q, 1),
                       RenderPassAttachment("VK_FORMAT_R8_UNORM", TRUE, 0, 1)>> :
                        q \in PaddingValues},
        depth \in {"VK_FORMAT_D24_UNORM_S8_UINT"},
        p \in PaddingValues}

FramebufferConfigurations ==
    {[colorViews |-> views,
      staticData |-> [depthView |-> 0, resolveView |-> 0, width |-> 1, height |-> 1,
                      renderPass |-> pass]] :
        views \in {<<1>>, <<2>>, <<1, 2>>}, pass \in {1}}

GraphicsPipelineConfigurations ==
    {[renderPass |-> pass, shader |-> 1, wireFrame |-> wire, primitiveType |-> type] :
        pass \in {1}, wire \in {FALSE}, type \in {"PRIMITIVE_TRIANGLES", "PRIMITIVE_POINTS"}}
      \cup {[renderPass |-> 2, shader |-> 1, wireFrame |-> TRUE,
              primitiveType |-> "PRIMITIVE_TRIANGLES"]}

\* The render pass for a configuration.
GetRenderPass ==
    \E configuration \in RenderPassConfigurations :
        /\ Cardinality(renderPasses) < MaxCacheEntries
        /\ renderPasses' = Lookup(renderPasses, configuration, RenderPassConfigurationEquals,
                                  RenderPassConfigurationHasher)
        /\ lookup' = Looked("renderPasses", renderPasses, renderPasses', configuration,
                            Handle(renderPasses, configuration, RenderPassConfigurationEquals,
                                   RenderPassConfigurationHasher))
        /\ UNCHANGED <<framebuffers, graphicsPipelines, graphicsVars, frameVars, contextVars, stageVars, readbackVars, instanceVars, formatVars>>

\* Graphics::getFramebuffer.
GetFramebuffer ==
    \E configuration \in FramebufferConfigurations :
        /\ Cardinality(framebuffers) < MaxCacheEntries
        /\ framebuffers' = Lookup(framebuffers, configuration, FramebufferConfigurationEquals,
                                  FramebufferConfigurationHasher)
        /\ lookup' = Looked("framebuffers", framebuffers, framebuffers', configuration,
                            Handle(framebuffers, configuration, FramebufferConfigurationEquals,
                                   FramebufferConfigurationHasher))
        /\ UNCHANGED <<renderPasses, graphicsPipelines, graphicsVars, frameVars, contextVars, stageVars, readbackVars, instanceVars, formatVars>>

\* Graphics::ensureGraphicsPipelineConfiguration.
EnsureGraphicsPipelineConfiguration ==
    \E configuration \in GraphicsPipelineConfigurations :
        /\ Cardinality(graphicsPipelines) < MaxCacheEntries
        /\ graphicsPipelines' = Lookup(graphicsPipelines, configuration,
                                       GraphicsPipelineConfigurationEquals,
                                       GraphicsPipelineConfigurationHasher)
        /\ lookup' = Looked("graphicsPipelines", graphicsPipelines, graphicsPipelines',
                            configuration,
                            Handle(graphicsPipelines, configuration,
                                   GraphicsPipelineConfigurationEquals,
                                   GraphicsPipelineConfigurationHasher))
        /\ UNCHANGED <<renderPasses, framebuffers, graphicsVars, frameVars, contextVars, stageVars, readbackVars, instanceVars, formatVars>>

NextCaches ==
    \/ GetRenderPass
    \/ GetFramebuffer
    \/ EnsureGraphicsPipelineConfiguration

SpecCaches == Init /\ [][NextCaches]_vars

(***************************************************************************)
(* SpecStages: newShaderStage and cleanupCachedShaderStage.  A ShaderStage *)
(* object is known by its place in shaderStages, with the stage type and   *)
(* the source it was compiled from and the cache key it was given.         *)
(***************************************************************************)
\* data::hash(FUNCTION_SHA1, source): the digest of the source.  Two of the
\* sources have the same digest.
SHA1(source) ==
    IF source \in {"position", "collidingposition"} THEN "digest1" ELSE "digest2"

\* The stage cached under a key, as a set: empty when there is none.
FindStage(cached, cachekey) == {e.stage : e \in {c \in cached : c.key = cachekey}}

\* cachedShaderStages[stage][cachekey] = s.
PutStage(cached, cachekey, s) ==
    {c \in cached : c.key # cachekey} \cup {[key |-> cachekey, stage |-> s]}

\* Lines 324-341: what is looked up, with the key.  cache after line 330.
StageCacheKey(source, defines, cache) ==
    IF cache /\ defines = {} /\ source # "" THEN SHA1(source) ELSE ""

StageCacheHit(cached, stage, source, defines, cache) ==
    IF StageCacheKey(source, defines, cache) # ""
    THEN FindStage(cached[stage], StageCacheKey(source, defines, cache))
    ELSE {}

\* Lines 343-350: the stage is compiled, and cached when there is a key.
newShaderStageCompiled(stages, stage, source, cachekey) ==
    Append(stages, [type |-> stage, source |-> source, cachekey |-> cachekey])

newShaderStageNoCache(cached, stages, stage, source, defines, cache) ==
    [cached |-> cached,
     stages |-> newShaderStageCompiled(stages, stage, source, ""),
     ret |-> Len(stages) + 1,
     compiled |-> TRUE]

\* Graphics::newShaderStage.
newShaderStage(cached, stages, stage, source, defines, cache) ==
    IF StageCacheHit(cached, stage, source, defines, cache) # {}
    THEN [cached |-> cached,
          stages |-> stages,
          ret |-> CHOOSE s \in StageCacheHit(cached, stage, source, defines, cache) : TRUE,
          compiled |-> FALSE]
    ELSE [cached |-> IF (cache /\ defines = {}) /\ StageCacheKey(source, defines, cache) # ""
                     THEN [cached EXCEPT ![stage] =
                              PutStage(@, StageCacheKey(source, defines, cache),
                                       Len(stages) + 1)]
                     ELSE cached,
          stages |-> newShaderStageCompiled(stages, stage, source,
                                            StageCacheKey(source, defines, cache)),
          ret |-> Len(stages) + 1,
          compiled |-> TRUE]

\* Graphics::cleanupCachedShaderStage.
cleanupCachedShaderStage(cached, type, hashkey) ==
    [cached EXCEPT ![type] = {c \in @ : c.key # hashkey}]

\* The sources asked for by stage type: none, two of one digest, and one
\* asked for as a vertex and as a pixel stage.
StageSources ==
    [type \in ShaderStageTypes |->
        IF type = "SHADERSTAGE_VERTEX" THEN {"", "position", "collidingposition"}
        ELSE IF type = "SHADERSTAGE_PIXEL" THEN {"position", "effect"}
        ELSE {"computemain"}]

StageDefines == {{}, {"DEFINE"}}

\* newShader asks for vertex and pixel stages with caching, newComputeShader
\* for a compute stage without.  Custom defines come with a request for
\* caching, where they matter.
NewShaderStage ==
    \E stage \in ShaderStageTypes, defines \in StageDefines, cache \in BOOLEAN :
      \E source \in StageSources[stage] :
        /\ \/ Len(shaderStages) < MaxShaderStages
           \/ StageCacheHit(cachedShaderStages, stage, source, defines, cache) # {}
        /\ stage = "SHADERSTAGE_COMPUTE" => ~cache
        /\ defines # {} => cache
        /\ cachedShaderStages' =
              newShaderStage(cachedShaderStages, shaderStages, stage, source, defines,
                             cache).cached
        /\ shaderStages' =
              newShaderStage(cachedShaderStages, shaderStages, stage, source, defines,
                             cache).stages
        /\ stageCall' =
              [op |-> "newShaderStage", stage |-> stage, source |-> source,
               defines |-> defines, cache |-> cache,
               ret |-> newShaderStage(cachedShaderStages, shaderStages, stage, source,
                                      defines, cache).ret,
               compiled |-> newShaderStage(cachedShaderStages, shaderStages, stage, source,
                                           defines, cache).compiled]
        /\ UNCHANGED <<graphicsVars, frameVars, contextVars, cacheVars, readbackVars, instanceVars, formatVars>>

\* A stage that has a cache key is destroyed: its destructor has the entry
\* removed.
CleanupCachedShaderStage ==
    \E s \in DOMAIN shaderStages :
        /\ shaderStages[s].cachekey # ""
        /\ cachedShaderStages' =
              cleanupCachedShaderStage(cachedShaderStages, shaderStages[s].type,
                                       shaderStages[s].cachekey)
        /\ stageCall' = [op |-> "cleanupCachedShaderStage", stage |-> shaderStages[s].type,
                         hashkey |-> shaderStages[s].cachekey]
        /\ UNCHANGED <<shaderStages, graphicsVars, frameVars, contextVars, cacheVars, readbackVars, instanceVars, formatVars>>

NextStages ==
    \/ NewShaderStage
    \/ CleanupCachedShaderStage

SpecStages == Init /\ [][NextStages]_vars

(***************************************************************************)
(* SpecReadbacks: immediate and asynchronous readbacks, the GPU finishing  *)
(* the copies in any order, and updatePendingReadbacks.  A readback is     *)
(* known by its place in readbacks.                                        *)
(***************************************************************************)
\* GraphicsReadback::update followed by isComplete: the readback is
\* complete once the GPU has finished its copy.
isComplete(made, id) == made[id].done

\* One more poll of a readback.
Polled(polls, id) == [polls EXCEPT ![id] = @ + 1]

\* pendingReadbacks[i] = pendingReadbacks.back(); pendingReadbacks.pop_back().
SwapRemove(pending, i) == SubSeq([pending EXCEPT ![i] = pending[Len(pending)]], 1, Len(pending) - 1)

\* The loop of lines 1182-1190 from index i (counted from 1) down.
RECURSIVE updateFrom(_, _, _, _)
updateFrom(i, pending, made, polls) ==
    IF i < 1 THEN [pending |-> pending, polls |-> polls]
    ELSE updateFrom(i - 1,
                    IF isComplete(made, pending[i]) THEN SwapRemove(pending, i) ELSE pending,
                    made,
                    Polled(polls, pending[i]))

updatePendingReadbacksKeep(pending, made) ==
    [pending |-> pending, polls |-> [id \in DOMAIN made |->
                    IF \E i \in DOMAIN pending : pending[i] = id THEN 1 ELSE 0]]

\* Graphics::updatePendingReadbacks.
updatePendingReadbacks(pending, made) ==
    updateFrom(Len(pending), pending, made, [id \in DOMAIN made |-> 0])

\* readbackBuffer and readbackTexture: the readback is made and waited
\* for, and is not queued.
ReadbackImmediate ==
    /\ Len(readbacks) < MaxReadbacks
    /\ readbacks' = Append(readbacks, [method |-> "READBACK_IMMEDIATE", done |-> TRUE])
    /\ readbackCall' = [op |-> "readback", ret |-> Len(readbacks) + 1]
    /\ UNCHANGED <<pendingReadbacks, graphicsVars, frameVars, contextVars, cacheVars, stageVars, instanceVars, formatVars>>

\* readbackBufferAsync and readbackTextureAsync.
ReadbackAsync ==
    /\ Len(readbacks) < MaxReadbacks
    /\ readbacks' = Append(readbacks, [method |-> "READBACK_ASYNC", done |-> FALSE])
    /\ pendingReadbacks' = Append(pendingReadbacks, Len(readbacks) + 1)
    /\ readbackCall' = [op |-> "readbackAsync", ret |-> Len(readbacks) + 1]
    /\ UNCHANGED <<graphicsVars, frameVars, contextVars, cacheVars, stageVars, instanceVars, formatVars>>

\* The GPU finishes the copy of a readback.
GpuFinishReadback ==
    \E id \in DOMAIN readbacks :
        /\ ~readbacks[id].done
        /\ readbacks' = [readbacks EXCEPT ![id].done = TRUE]
        /\ readbackCall' = [op |-> "gpu", ret |-> id]
        /\ UNCHANGED <<pendingReadbacks, graphicsVars, frameVars, contextVars, cacheVars, stageVars, instanceVars, formatVars>>

UpdatePendingReadbacks ==
    /\ pendingReadbacks' = updatePendingReadbacks(pendingReadbacks, readbacks).pending
    /\ readbackCall' = [op |-> "updatePendingReadbacks",
                        polls |-> updatePendingReadbacks(pendingReadbacks, readbacks).polls]
    /\ UNCHANGED <<readbacks, graphicsVars, frameVars, contextVars, cacheVars, stageVars, instanceVars, formatVars>>

NextReadbacks ==
    \/ ReadbackImmediate
    \/ ReadbackAsync
    \/ GpuFinishReadback
    \/ UpdatePendingReadbacks

SpecReadbacks == Init /\ [][NextReadbacks]_vars

(***************************************************************************)
(* SpecInstance: Graphics::createInstance with and without an instance of  *)
(* the module, for every list of enabled renderers, every set of backends  *)
(* compiled in and every set of backends whose creation succeeds.          *)
(***************************************************************************)
rendererOrder == <<"RENDERER_METAL", "RENDERER_OPENGL", "RENDERER_VULKAN">>

Renderers == {rendererOrder[i] : i \in DOMAIN rendererOrder}

\* The body of the loop for rendererOrder[i] and what follows it: the
\* backends whose createInstance was called, and the instance.
RECURSIVE createFrom(_, _, _, _, _)
createFrom(i, renderers, compiled, works, tried) ==
    IF i > Len(rendererOrder) THEN [instance |-> "none", tried |-> tried]
    ELSE IF rendererOrder[i] \notin renderers
    THEN createFrom(i + 1, renderers, compiled, works, tried)
    ELSE IF rendererOrder[i] \notin compiled
    THEN createFrom(i + 1, renderers, compiled, works, tried)
    ELSE IF rendererOrder[i] \in works
    THEN [instance |-> rendererOrder[i], tried |-> Append(tried, rendererOrder[i])]
    ELSE createFrom(i + 1, renderers, compiled, works, Append(tried, rendererOrder[i]))

createInstanceAnew(instance, renderers, compiled, works) ==
    createFrom(1, renderers, compiled, works, <<>>)

\* Graphics::createInstance.  instance is what Module::getInstance returns.
createInstance(instance, renderers, compiled, works) ==
    IF instance # "none" THEN [instance |-> instance, tried |-> <<>>]
    ELSE createFrom(1, renderers, compiled, works, <<>>)

\* The OpenGL backend is always compiled in; Metal and Vulkan are by
\* LOVE_GRAPHICS_METAL and LOVE_GRAPHICS_VULKAN.
CompiledBackends == {c \in SUBSET Renderers : "RENDERER_OPENGL" \in c}

\* A backend that is created registers itself as the graphics module.
CreateInstance ==
    \E renderers \in SUBSET Renderers, compiled \in CompiledBackends, works \in SUBSET Renderers :
        /\ backendsAlive < MaxInstances
        /\ instanceCall' =
              [op |-> "createInstance", existing |-> graphicsInstance, renderers |-> renderers,
               compiled |-> compiled, works |-> works,
               tried |-> createInstance(graphicsInstance, renderers, compiled, works).tried,
               ret |-> createInstance(graphicsInstance, renderers, compiled, works).instance]
        /\ graphicsInstance' =
              createInstance(graphicsInstance, renderers, compiled, works).instance
        /\ backendsAlive' =
              backendsAlive
                + (IF createInstance(graphicsInstance, renderers, compiled, works).tried # <<>>
                      /\ createInstance(graphicsInstance, renderers, compiled, works).instance
                            # "none"
                   THEN 1 ELSE 0)
        /\ UNCHANGED <<graphicsVars, frameVars, contextVars, cacheVars, stageVars, readbackVars, formatVars>>

\* The module is released and unregistered.
ReleaseInstance ==
    /\ graphicsInstance # "none"
    /\ graphicsInstance' = "none"
    /\ backendsAlive' = backendsAlive - 1
    /\ instanceCall' = [op |-> "release"]
    /\ UNCHANGED <<graphicsVars, frameVars, contextVars, cacheVars, stageVars, readbackVars, formatVars>>

NextInstance ==
    \/ CreateInstance
    \/ ReleaseInstance

SpecInstance == Init /\ [][NextInstance]_vars

(***************************************************************************)
(* SpecFormats: OpenGL::convertPixelFormat for a context's capabilities.   *)
(* Of the formats, those whose conversion depends on the capabilities or   *)
(* on the sRGB flag are kept, one plain format, the two the switch leaves  *)
(* out and one it does not know.  Enumerants are kept by name, zero as "0".*)
(***************************************************************************)
\* getSRGBPixelFormat: the sRGB variant of a format that has one.
getSRGBPixelFormat(pixelformat) ==
    IF pixelformat = "PIXELFORMAT_RGBA8_UNORM" THEN "PIXELFORMAT_RGBA8_UNORM_sRGB"
    ELSE IF pixelformat = "PIXELFORMAT_BGRA8_UNORM" THEN "PIXELFORMAT_BGRA8_UNORM_sRGB"
    ELSE pixelformat

isPixelFormatCompressed(pixelformat) ==
    pixelformat \in {"PIXELFORMAT_DXT1_UNORM", "PIXELFORMAT_ETC1_UNORM",
                     "PIXELFORMAT_ETC2_RGB_UNORM"}

\* Lines 1652-1659: the format the switch is entered with.
SwitchedFormat(caps, pixelformat, isSRGB) ==
    IF isSRGB THEN getSRGBPixelFormat(pixelformat)
    ELSE IF pixelformat = "PIXELFORMAT_ETC1_UNORM" /\ caps.ETC2 THEN "PIXELFORMAT_ETC2_RGB_UNORM"
    ELSE pixelformat

\* TextureFormat as constructed, with what was printed and the sRGB flag.
NoTextureFormat(isSRGB) ==
    [internalformat |-> "0", externalformat |-> "0", type |-> "0", isSRGB |-> isSRGB,
     printed |-> FALSE]

TextureFormat(internalformat, externalformat, type, isSRGB) ==
    [internalformat |-> internalformat, externalformat |-> externalformat, type |-> type,
     isSRGB |-> isSRGB, printed |-> FALSE]

\* The switch of lines 1661-2093.
ConvertSwitch(caps, pixelformat, isSRGB) ==
    CASE pixelformat = "PIXELFORMAT_R8_UNORM" ->
            IF caps.textureRG /\ ~caps.brokenR8PixelFormat
            THEN TextureFormat("GL_R8", "GL_RED", "GL_UNSIGNED_BYTE", isSRGB)
            ELSE TextureFormat("GL_LUMINANCE8", "GL_LUMINANCE", "GL_UNSIGNED_BYTE", isSRGB)
      [] pixelformat = "PIXELFORMAT_RGBA8_UNORM" ->
            TextureFormat("GL_RGBA8", "GL_RGBA", "GL_UNSIGNED_BYTE", isSRGB)
      [] pixelformat = "PIXELFORMAT_RGBA8_UNORM_sRGB" ->
            IF caps.ES2 /\ ~caps.ES3
            THEN TextureFormat("GL_SRGB8_ALPHA8", "GL_SRGB_ALPHA", "GL_UNSIGNED_BYTE", isSRGB)
            ELSE TextureFormat("GL_SRGB8_ALPHA8", "GL_RGBA", "GL_UNSIGNED_BYTE", isSRGB)
      [] pixelformat \in {"PIXELFORMAT_BGRA8_UNORM", "PIXELFORMAT_BGRA8_UNORM_sRGB"} ->
            NoTextureFormat(isSRGB)
      [] pixelformat = "PIXELFORMAT_RGBA4_UNORM" ->
            TextureFormat("GL_RGBA4", "GL_RGBA", "GL_UNSIGNED_SHORT_4_4_4_4", isSRGB)
      [] pixelformat = "PIXELFORMAT_DXT1_UNORM" ->
            TextureFormat(IF isSRGB THEN "GL_COMPRESSED_SRGB_ALPHA_S3TC_DXT1_EXT"
                          ELSE "GL_COMPRESSED_RGBA_S3TC_DXT1_EXT", "0", "0", isSRGB)
      [] pixelformat = "PIXELFORMAT_ETC1_UNORM" ->
            TextureFormat("GL_ETC1_RGB8_OES", "0", "0", FALSE)
      [] pixelformat = "PIXELFORMAT_ETC2_RGB_UNORM" ->
            TextureFormat(IF isSRGB THEN "GL_COMPRESSED_SRGB8_ETC2"
                          ELSE "GL_COMPRESSED_RGB8_ETC2", "0", "0", isSRGB)
      [] OTHER -> [NoTextureFormat(isSRGB) EXCEPT !.printed = TRUE]

\* Lines 2095-2112 for a format that is not compressed.
ConvertUncompressed(caps, pixelformat, renderbuffer, f) ==
    [f EXCEPT !.internalformat =
                  IF caps.ES2 /\ ~caps.ES3 /\ ~renderbuffer /\ ~caps.texStorage
                  THEN f.externalformat ELSE @,
              !.isSRGB = @ /\ isPixelFormatSRGB(pixelformat)]

ConvertSwitched(caps, pixelformat, renderbuffer, isSRGB) ==
    IF isPixelFormatCompressed(pixelformat)
    THEN ConvertSwitch(caps, pixelformat, isSRGB)
    ELSE ConvertUncompressed(caps, pixelformat, renderbuffer,
                             ConvertSwitch(caps, pixelformat, isSRGB))

\* OpenGL::convertPixelFormat.
convertPixelFormat(caps, pixelformat, renderbuffer, isSRGB) ==
    ConvertSwitched(caps, SwitchedFormat(caps, pixelformat, isSRGB), renderbuffer, isSRGB)

PixelFormats ==
    {"PIXELFORMAT_UNKNOWN", "PIXELFORMAT_R8_UNORM", "PIXELFORMAT_RGBA8_UNORM",
     "PIXELFORMAT_RGBA8_UNORM_sRGB", "PIXELFORMAT_BGRA8_UNORM", "PIXELFORMAT_RGBA4_UNORM",
     "PIXELFORMAT_DXT1_UNORM", "PIXELFORMAT_ETC1_UNORM"}

\* OpenGL ES 3 has the RG and ETC2 formats and texture storage.
Capabilities ==
    {caps \in [ES2 : BOOLEAN, ES3 : BOOLEAN, textureRG : BOOLEAN, ETC2 : BOOLEAN,
               brokenR8PixelFormat : BOOLEAN, texStorage : BOOLEAN] :
        /\ caps.ES3 => caps.ES2 /\ caps.textureRG /\ caps.ETC2 /\ caps.texStorage
        /\ caps.brokenR8PixelFormat => caps.textureRG}

\* OpenGL::initContext: the capabilities are those of the new context.
InitContext ==
    \E caps \in Capabilities :
        /\ glCapabilities' = caps
        /\ conversion' = [op |-> "none"]
        /\ previousConversion' = [op |-> "none"]
        /\ UNCHANGED <<graphicsVars, frameVars, contextVars, cacheVars, stageVars, readbackVars,
                       instanceVars>>

ConvertPixelFormat ==
    \E pixelformat \in PixelFormats, renderbuffer \in BOOLEAN, isSRGB \in BOOLEAN :
        /\ conversion' =
              [op |-> "convertPixelFormat", pixelformat |-> pixelformat,
               renderbuffer |-> renderbuffer, isSRGB |-> isSRGB,
               f |-> convertPixelFormat(glCapabilities, pixelformat, renderbuffer, isSRGB)]
        /\ previousConversion' = conversion
        /\ UNCHANGED <<glCapabilities, graphicsVars, frameVars, contextVars, cacheVars, stageVars,
                       readbackVars, instanceVars>>

NextFormats ==
    \/ InitContext
    \/ ConvertPixelFormat

SpecFormats == Init /\ [][NextFormats]_vars

(***************************************************************************)
(* SpecBindings: the buffer and framebuffer bindings of OpenGL.  The       *)
(* wrapper keeps what it has bound in state; the GL context keeps what is  *)
(* bound.  The operators work on a record of both and of the GL calls the  *)
(* call has made.  A handle is a positive number, 0 is no object.          *)
(***************************************************************************)
\* The record the operators work on, at the start of a call.
GL ==
    [boundBuffers |-> boundBuffers,
     boundIndexedBuffers |-> boundIndexedBuffers,
     boundFramebuffers |-> boundFramebuffers,
     boundTextures |-> boundTextures,
     curTextureUnit |-> curTextureUnit,
     context |-> context,
     calls |-> <<>>]

\* The state after a call that ended in o.
CommitGL(o, op, arg) ==
    /\ boundBuffers' = o.boundBuffers
    /\ boundIndexedBuffers' = o.boundIndexedBuffers
    /\ boundFramebuffers' = o.boundFramebuffers
    /\ boundTextures' = o.boundTextures
    /\ curTextureUnit' = o.curTextureUnit
    /\ context' = o.context
    /\ glCall' = [op |-> op, arg |-> arg, calls |-> o.calls]
    /\ UNCHANGED <<graphicsVars, frameVars, serviceVars>>

\* The bindings of a function that hold the object are reset to 0.
Unbound(bindings, object) ==
    [k \in DOMAIN bindings |-> IF bindings[k] = object THEN 0 ELSE bindings[k]]

\* glBindBuffer: the binding of the target.
glBindBuffer(o, target, buffer) ==
    [o EXCEPT !.context.bufferBinding[target] = buffer,
              !.calls = Append(@, <<"glBindBuffer", target, buffer>>)]

\* glBindBufferBase: the indexed binding point and the binding of the target.
glBindBufferBase(o, target, index, buffer) ==
    [o EXCEPT !.context.indexedBufferBinding[target][index + 1] = buffer,
              !.context.bufferBinding[target] = buffer,
              !.calls = Append(@, <<"glBindBufferBase", target, index, buffer>>)]

\* glDeleteBuffers of one name: 0 is ignored; every binding of the object in
\* the context reverts to 0.
glDeleteBuffers(o, buffer) ==
    IF buffer = 0 THEN [o EXCEPT !.calls = Append(@, <<"glDeleteBuffers", buffer>>)]
    ELSE [o EXCEPT
            !.context.bufferBinding = Unbound(@, buffer),
            !.context.indexedBufferBinding = [t \in DOMAIN @ |-> Unbound(@[t], buffer)],
            !.calls = Append(@, <<"glDeleteBuffers", buffer>>)]

\* glBindFramebuffer: GL_FRAMEBUFFER binds to both targets.
glBindFramebuffer(o, target, framebuffer) ==
    [o EXCEPT
       !.context.framebufferBinding =
          [t \in DOMAIN @ |-> IF target \in {"GL_FRAMEBUFFER", t} THEN framebuffer ELSE @[t]],
       !.calls = Append(@, <<"glBindFramebuffer", target, framebuffer>>)]

\* glDeleteFramebuffers of one name: as though 0 were bound to the targets
\* the object is bound to.
glDeleteFramebuffers(o, framebuffer) ==
    IF framebuffer = 0 THEN [o EXCEPT !.calls = Append(@, <<"glDeleteFramebuffers", framebuffer>>)]
    ELSE [o EXCEPT !.context.framebufferBinding = Unbound(@, framebuffer),
                   !.calls = Append(@, <<"glDeleteFramebuffers", framebuffer>>)]

\* OpenGL::bindBuffer.
bindBuffer(o, type, buffer) ==
    IF o.boundBuffers[type] # buffer
    THEN [glBindBuffer(o, getGLBufferType(type), buffer) EXCEPT !.boundBuffers[type] = buffer]
    ELSE o

\* OpenGL::deleteBuffer.
deleteBuffer(o, buffer) ==
    [glDeleteBuffers(o, buffer) EXCEPT
       !.boundBuffers = Unbound(@, buffer),
       !.boundIndexedBuffers = [i \in DOMAIN @ |-> Unbound(@[i], buffer)]]

\* bindIndexedBuffer that leaves state.boundBuffers as it is.
bindIndexedBufferOnly(o, buffer, type, index) ==
    IF Len(o.boundIndexedBuffers[type]) > index /\ buffer # o.boundIndexedBuffers[type][index + 1]
    THEN [glBindBufferBase(o, getGLBufferType(type), index, buffer) EXCEPT
            !.boundIndexedBuffers[type][index + 1] = buffer]
    ELSE o

\* OpenGL::bindIndexedBuffer.
bindIndexedBuffer(o, buffer, type, index) ==
    IF Len(o.boundIndexedBuffers[type]) > index /\ buffer # o.boundIndexedBuffers[type][index + 1]
    THEN [glBindBufferBase(o, getGLBufferType(type), index, buffer) EXCEPT
            !.boundIndexedBuffers[type][index + 1] = buffer,
            !.boundBuffers[type] = buffer]
    ELSE o

\* FramebufferTarget: FRAMEBUFFER_READ and FRAMEBUFFER_DRAW are bits,
\* FRAMEBUFFER_ALL is both; a target is the set of its bits.
FRAMEBUFFER_READ == {"READ"}

FRAMEBUFFER_DRAW == {"DRAW"}

FRAMEBUFFER_ALL == {"DRAW", "READ"}

\* Lines 1037-1047: the bindings bindFramebuffer modifies.
ModifiedFramebuffers(o, target, framebuffer) ==
    {i \in 1..2 : /\ (IF i = 1 THEN "DRAW" ELSE "READ") \in target
                  /\ o.boundFramebuffers[i] # framebuffer}

\* Lines 1051-1055.
FramebufferGLTarget(target) ==
    IF target = FRAMEBUFFER_DRAW THEN "GL_DRAW_FRAMEBUFFER"
    ELSE IF target = FRAMEBUFFER_READ THEN "GL_READ_FRAMEBUFFER"
    ELSE "GL_FRAMEBUFFER"

\* OpenGL::bindFramebuffer.
bindFramebuffer(o, target, framebuffer) ==
    IF ModifiedFramebuffers(o, target, framebuffer) # {}
    THEN [glBindFramebuffer(o, FramebufferGLTarget(target), framebuffer) EXCEPT
            !.boundFramebuffers =
                [i \in 1..2 |-> IF i \in ModifiedFramebuffers(o, target, framebuffer)
                                THEN framebuffer ELSE @[i]]]
    ELSE o

\* OpenGL::deleteFramebuffer.
deleteFramebuffer(o, framebuffer) ==
    [glDeleteFramebuffers(o, framebuffer) EXCEPT !.boundFramebuffers = Unbound(@, framebuffer)]

\* The buffers and framebuffers of a run; the usages buffers are bound for.
BufferHandles == {1, 2}

FramebufferHandles == {1, 2}

BoundUsages == {"BUFFERUSAGE_VERTEX", "BUFFERUSAGE_SHADER_STORAGE"}

BindBuffer ==
    \E type \in BoundUsages, buffer \in BufferHandles \cup {0} :
        CommitGL(bindBuffer(GL, type, buffer), "bindBuffer", <<type, buffer>>)

\* One index is past the binding points of the usage.
BindIndexedBuffer ==
    \E type \in BoundUsages, buffer \in BufferHandles \cup {0},
       index \in 0..maxShaderStorageBufferBindings :
        CommitGL(bindIndexedBuffer(GL, buffer, type, index), "bindIndexedBuffer",
                 <<buffer, type, index>>)

DeleteBuffer ==
    \E buffer \in BufferHandles :
        CommitGL(deleteBuffer(GL, buffer), "deleteBuffer", <<buffer>>)

BindFramebuffer ==
    \E target \in {FRAMEBUFFER_READ, FRAMEBUFFER_DRAW, FRAMEBUFFER_ALL},
       framebuffer \in FramebufferHandles \cup {0} :
        CommitGL(bindFramebuffer(GL, target, framebuffer), "bindFramebuffer",
                 <<target, framebuffer>>)

DeleteFramebuffer ==
    \E framebuffer \in FramebufferHandles :
        CommitGL(deleteFramebuffer(GL, framebuffer), "deleteFramebuffer", <<framebuffer>>)

NextBindings ==
    \/ BindBuffer
    \/ BindIndexedBuffer
    \/ DeleteBuffer
    \/ BindFramebuffer
    \/ DeleteFramebuffer

SpecBindings == Init /\ [][NextBindings]_vars

(***************************************************************************)
(* SpecTextureUnits: the active texture unit and the texture bindings of   *)
(* OpenGL.  A texture has one type and is bound under that type only.      *)
(***************************************************************************)
\* glActiveTexture(GL_TEXTURE0 + unit).
glActiveTexture(o, unit) ==
    [o EXCEPT !.context.activeTexture = unit,
              !.calls = Append(@, <<"glActiveTexture", unit>>)]

\* glBindTexture: the binding of the target in the active unit.
glBindTexture(o, target, texture) ==
    [o EXCEPT !.context.textureBinding[target][o.context.activeTexture + 1] = texture,
              !.calls = Append(@, <<"glBindTexture", target, texture>>)]

\* glDeleteTextures of one name: 0 is ignored; the binding of every unit the
\* texture is bound to reverts to 0.
glDeleteTextures(o, texture) ==
    IF texture = 0 THEN [o EXCEPT !.calls = Append(@, <<"glDeleteTextures", texture>>)]
    ELSE [o EXCEPT !.context.textureBinding = [t \in DOMAIN @ |-> Unbound(@[t], texture)],
                   !.calls = Append(@, <<"glDeleteTextures", texture>>)]

\* OpenGL::setTextureUnit.
setTextureUnit(o, textureunit) ==
    IF textureunit # o.curTextureUnit
    THEN [glActiveTexture(o, textureunit) EXCEPT !.curTextureUnit = textureunit]
    ELSE o

\* Lines 1163-1168: the unit is made active and the texture is bound.
BindInUnit(o, target, texture, textureunit) ==
    [glBindTexture(IF o.curTextureUnit # textureunit THEN glActiveTexture(o, textureunit) ELSE o,
                   getGLTextureType(target), texture)
        EXCEPT !.boundTextures[target][textureunit + 1] = texture]

\* bindTextureToUnit that takes the requested unit for the active one also
\* after it has restored the previous unit.
bindTextureToUnitNoRestore(o, target, texture, textureunit, restoreprev, bindforedit) ==
    IF texture # o.boundTextures[target][textureunit + 1]
    THEN IF restoreprev /\ o.curTextureUnit # textureunit
         THEN [glActiveTexture(BindInUnit(o, target, texture, textureunit), o.curTextureUnit)
                  EXCEPT !.curTextureUnit = textureunit]
         ELSE [BindInUnit(o, target, texture, textureunit) EXCEPT !.curTextureUnit = textureunit]
    ELSE IF bindforedit /\ ~restoreprev /\ textureunit # o.curTextureUnit
    THEN [glActiveTexture(o, textureunit) EXCEPT !.curTextureUnit = textureunit]
    ELSE o

\* OpenGL::bindTextureToUnit(TextureType, GLuint, int, bool, bool).
bindTextureToUnit(o, target, texture, textureunit, restoreprev, bindforedit) ==
    IF texture # o.boundTextures[target][textureunit + 1]
    THEN IF restoreprev /\ o.curTextureUnit # textureunit
         THEN glActiveTexture(BindInUnit(o, target, texture, textureunit), o.curTextureUnit)
         ELSE [BindInUnit(o, target, texture, textureunit) EXCEPT !.curTextureUnit = textureunit]
    ELSE IF bindforedit /\ ~restoreprev /\ textureunit # o.curTextureUnit
    THEN [glActiveTexture(o, textureunit) EXCEPT !.curTextureUnit = textureunit]
    ELSE o

\* OpenGL::deleteTexture.
deleteTexture(o, texture) ==
    glDeleteTextures([o EXCEPT !.boundTextures = [i \in DOMAIN @ |-> Unbound(@[i], texture)]],
                     texture)

\* The textures of a run, by type: two 2D textures and a buffer texture.
TextureHandles ==
    [TEXTURE_2D |-> {1, 2}, TEXTURE_CUBE |-> {}, TEXTURE_MAX_ENUM |-> {3}]

TextureUnits == 0 .. maxTextureUnits - 1

SetTextureUnit ==
    \E textureunit \in TextureUnits :
        CommitGL(setTextureUnit(GL, textureunit), "setTextureUnit", <<textureunit>>)

BindTextureToUnit ==
    \E target \in TextureTypes, textureunit \in TextureUnits, restoreprev \in BOOLEAN,
       bindforedit \in BOOLEAN :
        \E texture \in TextureHandles[target] \cup {0} :
            CommitGL(bindTextureToUnit(GL, target, texture, textureunit, restoreprev, bindforedit),
                     "bindTextureToUnit",
                     <<target, texture, textureunit, restoreprev, bindforedit>>)

DeleteTexture ==
    \E texture \in {1, 2, 3} :
        CommitGL(deleteTexture(GL, texture), "deleteTexture", <<texture>>)

NextTextureUnits ==
    \/ SetTextureUnit
    \/ BindTextureToUnit
    \/ DeleteTexture

SpecTextureUnits == Init /\ [][NextTextureUnits]_vars

(***************************************************************************)
(* Vocabulary of the claims about the accumulator.                         *)
(***************************************************************************)
Range(f) == {f[i] : i \in DOMAIN f}

\* What a batch may not mix: topology, the two formats, indexed or not,
\* texture, shader role.
ReqKey(cmd) ==
    <<cmd.primitiveMode, cmd.formats, cmd.indexMode # "NONE", cmd.texture,
      cmd.standardShaderType>>

\* The requests whose vertices are in the accumulator (written, not drawn).
PendingReqs ==
    [i \in 1..Len(batchedDrawState.vbMap[1].segs) |-> batchedDrawState.vbMap[1].segs[i].req]

\* The draw calls a call made.
DrawsOf(c) == SelectSeq(c.ev, LAMBDA e : e.type = "draw")

\* The buffers hold the pending batch plus cmd without growing, and the
\* vertices stay within the range of 16-bit indices.
CapacitySuffices(cmd) ==
    /\ \A i \in 1..2 :
          getFormatStride(cmd.formats[i]) * (batchedDrawState.vertexCount + cmd.vertexCount)
            <= batchedDrawState.vb[i].size
    /\ cmd.indexMode # "NONE" =>
          /\ (batchedDrawState.indexCount + getIndexCount(cmd.indexMode, cmd.vertexCount)) * IndexSize
                <= batchedDrawState.indexBuffer.size
          /\ batchedDrawState.vertexCount + cmd.vertexCount <= LOVE_UINT16_MAX

AllMapsClosed(sb) ==
    /\ ~sb.vbMap[1].open
    /\ ~sb.vbMap[2].open
    /\ ~sb.indexBufferMap.open

\* C4: a request with the key of the non-empty pending batch, when the
\* capacity suffices, is appended without a draw call (so N such requests in
\* a row end in one draw call), and a request that differs from the pending
\* batch in its texture only makes exactly one draw call, of the whole
\* pending batch, before it is appended.
C4_Coalescing ==
    [][(/\ call'.op = "requestBatchedDraw"
        /\ PendingReqs # <<>>
        /\ CapacitySuffices(call'.arg))
       => /\ (\A r \in Range(PendingReqs) : ReqKey(reqLog[r]) = ReqKey(call'.arg))
               => /\ DrawsOf(call') = <<>>
                  /\ PendingReqs' = IF call'.arg.vertexCount > 0
                                     THEN Append(PendingReqs, nreq') ELSE PendingReqs
          /\ (\A r \in Range(PendingReqs) :
                 /\ reqLog[r].texture # call'.arg.texture
                 /\ ReqKey([reqLog[r] EXCEPT !.texture = call'.arg.texture]) = ReqKey(call'.arg))
               => /\ Len(DrawsOf(call')) = 1
                  /\ DrawsOf(call')[1].data.vreqs = PendingReqs
                  /\ PendingReqs' = IF call'.arg.vertexCount > 0 THEN <<nreq'>> ELSE <<>>]_vars

\* C5: every draw call of flushBatchedDraws covers requests of one key only.
C5_UniformBatches ==
    \A k \in 1..Len(drawLog) :
        \A a, b \in Range(drawLog[k].vreqs) : ReqKey(reqLog[a]) = ReqKey(reqLog[b])

\* C6: no indexed draw call references more than 65535 vertices.
C6_IndexLimit ==
    \A k \in 1..Len(drawLog) :
        drawLog[k].indexed => drawLog[k].vertexCount <= LOVE_UINT16_MAX

\* C7: flushBatchedDraws on a non-empty accumulator makes exactly one draw
\* call, indexed exactly when indices are pending, with the accumulated
\* counts; afterwards all three mapped regions are closed and the counts are
\* 0; on an empty accumulator it makes no draw call.
C7_FlushOnce ==
    [][call'.op = "flushBatchedDraws" =>
         IF batchedDrawState.vertexCount > 0 \/ batchedDrawState.indexCount > 0
         THEN /\ Len(call'.ev) = 1
              /\ call'.ev[1].type = "draw"
              /\ call'.ev[1].data.indexed = (batchedDrawState.indexCount > 0)
              /\ call'.ev[1].data.vertexCount = batchedDrawState.vertexCount
              /\ call'.ev[1].data.indexCount = batchedDrawState.indexCount
              /\ AllMapsClosed(batchedDrawState')
              /\ batchedDrawState'.vertexCount = 0
              /\ batchedDrawState'.indexCount = 0
         ELSE call'.ev = <<>>]_vars

\* C8: when requestBatchedDraw replaces a stream buffer, the new one is at
\* least twice as large, the pending batch was drawn first, no region stays
\* open on the replaced buffer, and the pointers returned point into the
\* buffers the next flush unmaps.
C8_ResizeAfterFlush ==
    [][call'.op = "requestBatchedDraw" =>
         /\ \A i \in 1..2 :
               /\ batchedDrawState'.vb[i] # batchedDrawState.vb[i] =>
                     /\ batchedDrawState'.vb[i].size >= 2 * batchedDrawState.vb[i].size
                     /\ PendingReqs # <<>> =>
                           /\ Len(DrawsOf(call')) = 1
                           /\ DrawsOf(call')[1].data.vreqs = PendingReqs
               /\ batchedDrawState'.vbMap[i].open =>
                     batchedDrawState'.vbMap[i].buf = batchedDrawState'.vb[i].size
               /\ call'.ret[i].len > 0 => call'.ret[i].buf = batchedDrawState'.vb[i].size
         /\ batchedDrawState'.indexBuffer # batchedDrawState.indexBuffer =>
               /\ batchedDrawState'.indexBuffer.size >= 2 * batchedDrawState.indexBuffer.size
               /\ PendingReqs # <<>> =>
                     /\ Len(DrawsOf(call')) = 1
                     /\ DrawsOf(call')[1].data.vreqs = PendingReqs
         /\ batchedDrawState'.indexBufferMap.open =>
               batchedDrawState'.indexBufferMap.buf = batchedDrawState'.indexBuffer.size]_vars

\* C9: the requests with at least one vertex are drawn in the order they
\* were made, each once: the requests drawn so far followed by the pending
\* ones are the requests made, in order; and a draw call gets the vertices
\* and indices that were written for the requests it covers.
RequestsWithVertices ==
    SelectSeq([i \in 1..nreq |-> i], LAMBDA r : reqLog[r].vertexCount > 0)

C9_Fifo ==
    /\ Flatten([k \in 1..Len(drawLog) |-> drawLog[k].vreqs]) \o PendingReqs
         = RequestsWithVertices
    /\ \A k \in 1..Len(drawLog) :
          /\ ~drawLog[k].garbage
          /\ drawLog[k].indexed =>
                drawLog[k].ireqs =
                  SelectSeq(drawLog[k].vreqs,
                            LAMBDA r : getIndexCount(reqLog[r].indexMode, reqLog[r].vertexCount) > 0)

(***************************************************************************)
(* The state stack.                                                        *)
(***************************************************************************)
\* C1: under any sequence of push (either kind) and pop, the state stack and
\* the transform stack keep at least one entry, and a pop made when no push
\* is outstanding raises an error and leaves the state, transform,
\* pixel-scale and stack-type stacks as they were.
C1_StackBalance ==
    [][/\ Len(states') >= 1
       /\ Len(transformStack') >= 1
       /\ (call'.op = "pop" /\ stackTypeStack = <<>>) =>
             /\ call'.err = "minimum stack depth"
             /\ UNCHANGED <<states, transformStack, pixelScaleStack, stackTypeStack>>]_vars

\* A pop with no push outstanding was refused.
C1_Witness ==
    /\ call.op = "pop"
    /\ call.err = "minimum stack depth"
    /\ stackTypeStack = <<>>
    /\ Len(transformStack) = 1

\* C2: a pop that matches a push of the whole state succeeds, and after it
\* the current display state, the render targets the backend has bound and
\* the device projection are what they were when the push was made.
C2_RestoreRoundTrip ==
    [][(call'.op = "pop" /\ stackTypeStack # <<>> /\ Last(stackTypeStack) = "ALL") =>
          /\ call'.err = "none"
          /\ Last(states') = Last(pushLog).state
          /\ boundRTs' = Last(pushLog).boundRTs
          /\ deviceProjectionMatrix' = Last(pushLog).deviceProjectionMatrix]_vars

(***************************************************************************)
(* Flushes before changes.                                                 *)
(***************************************************************************)
\* The backend calls that switch the render targets, change the device
\* projection, dispatch, or draw without batching.
ChangeEvents ==
    {"setRenderTargetsInternal", "deviceProjection", "dispatch", "drawShaderVertices"}

\* C3: whenever a call switches the render targets, changes the device
\* projection, dispatches or draws without batching, the accumulator is
\* empty at that moment, and what was in it when the call began has been
\* drawn before.
C3_FlushBeforeChange ==
    [][\A i \in 1..Len(call'.ev) :
          call'.ev[i].type \in ChangeEvents =>
             /\ call'.ev[i].pendingV = 0
             /\ call'.ev[i].pendingI = 0
             /\ batchedDrawState.vertexCount > 0 =>
                   \E j \in 1..(i - 1) : call'.ev[j].type = "draw"]_vars

\* A pop that found a request in the accumulator drew it and then switched
\* the render targets.
C3_Witness ==
    /\ call.op = "pop"
    /\ \E i, j \in 1..Len(call.ev) :
          /\ i < j
          /\ call.ev[i].type = "draw"
          /\ call.ev[j].type = "setRenderTargetsInternal"

(***************************************************************************)
(* Render-target validation.                                               *)
(***************************************************************************)
\* The pixel size of an attachment.
TargetSize(rt) ==
    <<getPixelWidth(rt.texture, rt.mipmap), getPixelHeight(rt.texture, rt.mipmap)>>

\* The attachments of a target set.
Attachments(rts) ==
    Range(rts.colors) \cup (IF rts.depthStencil.texture = "null" THEN {} ELSE {rts.depthStencil})

DimensionsDiffer(rts) ==
    \E a, b \in Attachments(rts) : TargetSize(a) # TargetSize(b)

\* C10: setRenderTargets with attachments of differing pixel dimensions
\* raises an error and changes nothing: the display state, the bound
\* targets, the switch counter, the temporary textures and the accumulator
\* stay as they were and no backend call is made.
C10_DimensionMismatchRejected ==
    [][(call'.op = "setRenderTargets" /\ DimensionsDiffer(call'.arg)) =>
          /\ call'.err # "none"
          /\ call'.ev = <<>>
          /\ UNCHANGED <<states, boundRTs, renderTargetSwitchCount, temporaryTextures,
                         batchedDrawState>>]_vars

\* The set asked for is the one the backend has bound (for a temporary
\* depth/stencil buffer: the same colours and flags).
SameAsBound(rts) ==
    /\ rts.colors = boundRTs.colors
    /\ rts.temporaryRTFlags = boundRTs.temporaryRTFlags
    /\ WantsTemporary(rts) \/ rts.depthStencil = boundRTs.depthStencil

\* C11: setRenderTargets with the set that is currently bound, and
\* setRenderTarget() while the screen is the target, do nothing: no error, no
\* backend call (flush, bind, projection), no change of the switch counter,
\* the state, the projection, the accumulator or the pool.
C11_IdenticalSetIsNoOp ==
    [][(\/ call'.op = "setRenderTargets" /\ SameAsBound(call'.arg)
        \/ call'.op = "setRenderTarget" /\ boundRTs = DefaultRenderTargets) =>
          /\ call'.err = "none"
          /\ call'.ev = <<>>
          /\ UNCHANGED <<states, boundRTs, renderTargetSwitchCount, deviceProjectionMatrix,
                         batchedDrawState, temporaryTextures>>]_vars

\* What setRenderTargets asks of one attachment.
ValidAttachment(rt) ==
    /\ isRenderTarget(rt.texture)
    /\ rt.mipmap >= 0 /\ rt.mipmap < getMipmapCount(rt.texture)
    /\ isValidSlice(rt.texture, rt.slice, rt.mipmap)

\* C12: the render targets of the current DisplayState are a valid set: at
\* most LimitRenderTargets colour targets; every attachment a render target
\* with mipmap and slice in range; one pixel size and one sample count for
\* all; one format for the colour targets (no multi-format support); no
\* depth/stencil format among the colour targets and only a depth/stencil
\* format in the depth-stencil slot.
C12_CurrentTargetsValid ==
    LET rts == Last(states).renderTargets IN
    /\ Len(rts.colors) <= LimitRenderTargets
    /\ \A a \in Attachments(rts) : ValidAttachment(a)
    /\ \A a, b \in Attachments(rts) :
          /\ TargetSize(a) = TargetSize(b)
          /\ getRequestedMSAA(a.texture) = getRequestedMSAA(b.texture)
    /\ MultiFormatSupported \/
          \A a, b \in Range(rts.colors) : getPixelFormat(a.texture) = getPixelFormat(b.texture)
    /\ \A c \in Range(rts.colors) : ~isPixelFormatDepthStencil(getPixelFormat(c.texture))
    /\ rts.depthStencil.texture # "null" =>
          isPixelFormatDepthStencil(getPixelFormat(rts.depthStencil.texture))

(***************************************************************************)
(* Vocabulary of the claims about the temporary textures and buffers.      *)
(***************************************************************************)
\* The shape of a pool entry.
TextureShapeOf(e) == [format |-> e.format, w |-> e.w, h |-> e.h, samples |-> e.samples]

BufferShapeOf(e) ==
    [size |-> e.size, format |-> e.format, usageflags |-> e.usageflags,
     datausage |-> e.datausage]

\* The released (idle) entries of a shape.
IdleTextures(shape) ==
    {i \in 1..Len(temporaryTextures) :
        temporaryTextures[i].framesSinceUse >= 0 /\ TextureShapeOf(temporaryTextures[i]) = shape}

IdleBuffers(shape) ==
    {i \in 1..Len(temporaryBuffers) :
        temporaryBuffers[i].framesSinceUse >= 0 /\ BufferShapeOf(temporaryBuffers[i]) = shape}

\* The call made an object.
Allocated(c) == \E k \in 1..Len(c.ev) : c.ev[k].type \in {"newTexture", "newBuffer"}

\* The call destroyed the object.
Destroyed(c, object) ==
    \E k \in 1..Len(c.ev) : c.ev[k].type = "release" /\ c.ev[k].data = object

\* The per-frame update keeps what is checked out, ages what is idle for
\* fewer than MAX_TEMPORARY_RESOURCE_UNUSED_FRAMES frames, and destroys and
\* removes what has been idle for that many frames, nothing else.
EvictionStep ==
    /\ \A i \in 1..Len(temporaryTextures) :
          LET e == temporaryTextures[i] IN
          IF e.framesSinceUse >= MAX_TEMPORARY_RESOURCE_UNUSED_FRAMES
          THEN /\ Destroyed(call', e.texture)
               /\ \A j \in 1..Len(temporaryTextures') : temporaryTextures'[j].texture # e.texture
          ELSE /\ ~Destroyed(call', e.texture)
               /\ \E j \in 1..Len(temporaryTextures') :
                     temporaryTextures'[j] =
                        [e EXCEPT !.framesSinceUse = IF @ < 0 THEN @ ELSE @ + 1]
    /\ \A i \in 1..Len(temporaryBuffers) :
          LET e == temporaryBuffers[i] IN
          IF e.framesSinceUse >= MAX_TEMPORARY_RESOURCE_UNUSED_FRAMES
          THEN /\ Destroyed(call', e.buffer)
               /\ \A j \in 1..Len(temporaryBuffers') : temporaryBuffers'[j].buffer # e.buffer
          ELSE /\ ~Destroyed(call', e.buffer)
               /\ \E j \in 1..Len(temporaryBuffers') :
                     temporaryBuffers'[j] =
                        [e EXCEPT !.framesSinceUse = IF @ < 0 THEN @ ELSE @ + 1]
    /\ Len(temporaryTextures') <= Len(temporaryTextures)
    /\ Len(temporaryBuffers') <= Len(temporaryBuffers)

\* C13 as stated: an acquire of a shape returns the very object that was
\* released with that shape and is not yet evicted, and allocates nothing;
\* the update destroys a released object when the idle limit has elapsed and
\* not before.
C13_ReuseSameObject ==
    [][/\ call'.op = "getTemporaryTexture" =>
             \A i \in IdleTextures(call'.arg) :
                 call'.ret = temporaryTextures[i].texture /\ ~Allocated(call')
       /\ call'.op = "getTemporaryBuffer" =>
             \A i \in IdleBuffers(call'.arg) :
                 call'.ret = temporaryBuffers[i].buffer /\ ~Allocated(call')
       /\ call'.op = "updateTemporaryResources" => EvictionStep]_vars

\* C13 (amended): an acquire of a shape of which released, not yet evicted
\* objects are in the pool returns one of them, the first in the pool (so
\* the same object when it is the only one), and allocates nothing; the
\* update destroys a released object when the idle limit has elapsed and
\* not before.
C13_ReusePooledObject ==
    [][/\ (call'.op = "getTemporaryTexture" /\ IdleTextures(call'.arg) # {}) =>
             /\ call'.ret = temporaryTextures[FirstIndex(IdleTextures(call'.arg))].texture
             /\ ~Allocated(call')
             /\ Len(temporaryTextures') = Len(temporaryTextures)
       /\ (call'.op = "getTemporaryBuffer" /\ IdleBuffers(call'.arg) # {}) =>
             /\ call'.ret = temporaryBuffers[FirstIndex(IdleBuffers(call'.arg))].buffer
             /\ ~Allocated(call')
             /\ Len(temporaryBuffers') = Len(temporaryBuffers)
       /\ call'.op = "updateTemporaryResources" => EvictionStep]_vars

\* An update has destroyed an object and kept a younger idle one.
C13_Witness ==
    /\ call.op = "updateTemporaryResources"
    /\ Allocated(call) = FALSE
    /\ \E k \in 1..Len(call.ev) : call.ev[k].type = "release"
    /\ \E i \in 1..Len(temporaryTextures) : temporaryTextures[i].framesSinceUse > 0

\* C14: an acquire never returns an object that is checked out; an object
\* of the pool it returns has exactly the shape asked for and nothing is
\* allocated; otherwise a new object of that shape is made and appended to
\* the pool; the object returned is checked out afterwards.
C14_AcquireExclusive ==
    [][/\ call'.op = "getTemporaryTexture" =>
             /\ \A i \in 1..Len(temporaryTextures) :
                   temporaryTextures[i].texture = call'.ret =>
                      /\ temporaryTextures[i].framesSinceUse >= 0
                      /\ TextureShapeOf(temporaryTextures[i]) = call'.arg
                      /\ ~Allocated(call')
                      /\ Len(temporaryTextures') = Len(temporaryTextures)
             /\ (\A i \in 1..Len(temporaryTextures) : temporaryTextures[i].texture # call'.ret) =>
                   /\ Allocated(call')
                   /\ Len(temporaryTextures') = Len(temporaryTextures) + 1
                   /\ Front(temporaryTextures') = temporaryTextures
                   /\ Last(temporaryTextures').texture = call'.ret
                   /\ TextureShapeOf(Last(temporaryTextures')) = call'.arg
             /\ \E j \in 1..Len(temporaryTextures') :
                   temporaryTextures'[j].texture = call'.ret
                      /\ temporaryTextures'[j].framesSinceUse < 0
       /\ call'.op = "getTemporaryBuffer" =>
             /\ \A i \in 1..Len(temporaryBuffers) :
                   temporaryBuffers[i].buffer = call'.ret =>
                      /\ temporaryBuffers[i].framesSinceUse >= 0
                      /\ BufferShapeOf(temporaryBuffers[i]) = call'.arg
                      /\ ~Allocated(call')
                      /\ Len(temporaryBuffers') = Len(temporaryBuffers)
             /\ (\A i \in 1..Len(temporaryBuffers) : temporaryBuffers[i].buffer # call'.ret) =>
                   /\ Allocated(call')
                   /\ Len(temporaryBuffers') = Len(temporaryBuffers) + 1
                   /\ Front(temporaryBuffers') = temporaryBuffers
                   /\ Last(temporaryBuffers').buffer = call'.ret
                   /\ BufferShapeOf(Last(temporaryBuffers')) = call'.arg
             /\ \E j \in 1..Len(temporaryBuffers') :
                   temporaryBuffers'[j].buffer = call'.ret
                      /\ temporaryBuffers'[j].framesSinceUse < 0]_vars

\* Two objects of one shape are checked out, the second just acquired.
C14_Witness ==
    /\ call.op = "getTemporaryTexture"
    /\ \E i, j \in 1..Len(temporaryTextures) :
          /\ i # j
          /\ temporaryTextures[i].framesSinceUse < 0
          /\ temporaryTextures[j].framesSinceUse < 0
          /\ TextureShapeOf(temporaryTextures[i]) = TextureShapeOf(temporaryTextures[j])
          /\ temporaryTextures[j].texture = call.ret

\* The four stacks agree: one transform and one pixel scale per push and
\* one more, one DisplayState per full-state push and one more.
StacksConsistent ==
    /\ Len(transformStack) = Len(stackTypeStack) + 1
    /\ Len(pixelScaleStack) = Len(stackTypeStack) + 1
    /\ Len(states) = Cardinality({i \in 1..Len(stackTypeStack) : stackTypeStack[i] = "ALL"}) + 1

\* C15: a call that raises an error has had no effect: the four stacks (the
\* current DisplayState with them), the pending vertex and index counts and
\* the switch counter are as before the call, and the stacks agree.
C15_ErrorsHaveNoEffect ==
    [][call'.err # "none" =>
          /\ UNCHANGED <<states, transformStack, pixelScaleStack, stackTypeStack,
                         renderTargetSwitchCount>>
          /\ batchedDrawState'.vertexCount = batchedDrawState.vertexCount
          /\ batchedDrawState'.indexCount = batchedDrawState.indexCount
          /\ StacksConsistent']_vars

\* The frames begun before any frame was completed: beginCount while no
\* fence has been signalled by the GPU.
NoneCompleted == Cardinality(pendingFrames) = beginCount - (IF cpu = "idle" THEN 0 ELSE 1)

\* C16: beginFrame passes its wait only when the fence of the slot is
\* signalled; at most N frames are submitted and not completed; after N + 1
\* calls of beginFrame with no frame completed the thread is in the wait of
\* the (N + 1)th call; and a waiting beginFrame whose fence is signalled
\* proceeds to recording.
C16_FramePacing ==
    /\ [][cpu = "beginFrame" /\ cpu' = "recording" => inFlightFences[currentFrame]]_vars
    /\ [](Cardinality(pendingFrames) <= MAX_FRAMES_IN_FLIGHT)
    /\ [](beginCount = MAX_FRAMES_IN_FLIGHT + 1 /\ NoneCompleted => cpu = "beginFrame")
    /\ (cpu = "beginFrame" /\ inFlightFences[currentFrame]) ~> (cpu = "recording")

\* The (N + 1)th beginFrame has waited for the fence of slot 0 and proceeded.
C16_Witness ==
    /\ beginCount = MAX_FRAMES_IN_FLIGHT + 1
    /\ currentFrame = 0
    /\ cpu = "recording"
    /\ Cardinality(pendingFrames) = MAX_FRAMES_IN_FLIGHT - 1

C18_PushAtMaximumDepth ==
    /\ [](Len(stackTypeStack) <= MAX_USER_STACK_DEPTH)
    /\ [][(call'.op = "push" /\ Len(stackTypeStack) = MAX_USER_STACK_DEPTH) =>
             /\ call'.err = "maximum stack depth"
             /\ UNCHANGED <<transformStack, pixelScaleStack, states, stackTypeStack>>]_vars

\* A push at the maximum depth was refused.
C18_Witness ==
    /\ call.op = "push"
    /\ call.err = "maximum stack depth"
    /\ Len(stackTypeStack) = MAX_USER_STACK_DEPTH
    /\ Len(transformStack) = MAX_USER_STACK_DEPTH + 1

\* C19: a transform-only push appends a copy of the top transform and of the
\* top pixel scale and leaves the state stack alone; the pop that matches
\* it brings back the transform and the pixel scale of the moment of the
\* push and leaves the state stack, with what the setters did since, as it
\* is; the pop that matches a push of the whole state succeeds and brings
\* back the DisplayState of the moment of the push.
C19_TransformOnlyPush ==
    [][/\ (call'.op = "push" /\ call'.arg = "TRANSFORM" /\ call'.err = "none") =>
             /\ transformStack' = Append(transformStack, Last(transformStack))
             /\ pixelScaleStack' = Append(pixelScaleStack, Last(pixelScaleStack))
             /\ states' = states
       /\ (call'.op = "pop" /\ stackTypeStack # <<>> /\ Last(stackTypeStack) = "TRANSFORM") =>
             /\ call'.err = "none"
             /\ Last(transformStack') = Last(pushLog).transform
             /\ Last(pixelScaleStack') = Last(pushLog).pixelScale
             /\ states' = states
       /\ (call'.op = "pop" /\ stackTypeStack # <<>> /\ Last(stackTypeStack) = "ALL") =>
             /\ call'.err = "none"
             /\ Last(transformStack') = Last(pushLog).transform
             /\ Last(pixelScaleStack') = Last(pushLog).pixelScale
             /\ Len(states') = Len(states) - 1
             /\ Last(states') = Last(pushLog).state]_vars

\* The set a call asks for: the argument of setRenderTargets, the screen for
\* setRenderTarget().
Requested(c) == IF c.op = "setRenderTarget" THEN DefaultRenderTargets ELSE c.arg

\* The device projection for a target set: orthographic, of the size of the
\* first target at its mipmap, or of the screen.
ProjectionFor(rts) ==
    computeDeviceProjection(
        IF getFirstTarget(rts).texture = "null" THEN ortho(Screen.w, Screen.h)
        ELSE ortho(FirstPixelWidth(rts), FirstPixelHeight(rts)),
        getFirstTarget(rts).texture # "null")

\* In the backend calls ev of a call that began with count switches and the
\* targets prev in the current state: every draw, then the one bind at b,
\* made with nothing pending and before the state and the counter changed,
\* then the one projection at p, made after both changed.
SwitchOrder(ev, b, p, rts, count, prev) ==
    /\ b < p
    /\ \A i \in 1..Len(ev) : ev[i].type = "setRenderTargetsInternal" <=> i = b
    /\ \A i \in 1..Len(ev) : ev[i].type = "deviceProjection" <=> i = p
    /\ \A i \in 1..Len(ev) : ev[i].type = "draw" => i < b
    /\ ev[b].pendingV = 0 /\ ev[b].pendingI = 0
    /\ ev[b].data.rts.colors = rts.colors
    /\ ev[b].switchCount = count
    /\ ev[b].renderTargets = prev
    /\ ev[p].switchCount = (count + 1) % SwitchCountWrap
    /\ ev[p].renderTargets = rts
    /\ ev[p].data = ProjectionFor(rts)

\* C20: a successful setRenderTargets, or setRenderTarget(), that asks for
\* another set than the bound one draws what is pending, then binds the
\* set, then stores it in the current state and adds one to the switch
\* counter, then resets the projection to the orthographic projection of
\* the size of the new first target (of the screen for the default
\* target), which ends the use of a custom projection.
C20_SwitchSequence ==
    [][(/\ call'.op \in {"setRenderTargets", "setRenderTarget"}
        /\ call'.err = "none"
        /\ ~SameAsBound(Requested(call'))) =>
          /\ \E b, p \in 1..Len(call'.ev) :
                SwitchOrder(call'.ev, b, p, Requested(call'), renderTargetSwitchCount,
                            Last(states).renderTargets)
          /\ batchedDrawState.vertexCount > 0 =>
                \E i \in 1..Len(call'.ev) : call'.ev[i].type = "draw"
          /\ renderTargetSwitchCount' = (renderTargetSwitchCount + 1) % SwitchCountWrap
          /\ Last(states').renderTargets = Requested(call')
          /\ ~Last(states').useCustomProjection
          /\ deviceProjectionMatrix' = ProjectionFor(Requested(call'))]_vars

(***************************************************************************)
(* Temporary depth/stencil buffers of render-target switches.              *)
(***************************************************************************)
\* The narrowest format that holds what the flags ask for.
NarrowestFormat(flags, depth24supported) ==
    IF flags = {TEMPORARY_RT_STENCIL} THEN "STENCIL8"
    ELSE IF flags = {TEMPORARY_RT_DEPTH}
         THEN (IF depth24supported THEN "DEPTH24" ELSE "DEPTH16")
    ELSE "DEPTH24_STENCIL8"

\* The positions of the backend calls of a type.
EventsOfType(ev, type) == {i \in 1..Len(ev) : ev[i].type = type}

\* The pool entries of a texture.
PoolEntries(pool, texture) == {i \in 1..Len(pool) : pool[i].texture = texture}

\* Texture t was taken from the pool for the set rts and is back in it: it
\* has the pixel size and the sample count of the first target and the
\* narrowest format, it was idle in the pool or was created by this call,
\* and it is checked in afterwards.
TemporaryOf(t, rts, ev, before, after) ==
    /\ \E i \in PoolEntries(after, t) :
          /\ after[i].format = NarrowestFormat(rts.temporaryRTFlags, Depth24Supported)
          /\ after[i].w = FirstPixelWidth(rts)
          /\ after[i].h = FirstPixelHeight(rts)
          /\ after[i].samples = getRequestedMSAA(getFirstTarget(rts).texture)
          /\ after[i].framesSinceUse = 0
    /\ \/ /\ EventsOfType(ev, "newTexture") = {}
          /\ \E i \in PoolEntries(before, t) : before[i].framesSinceUse >= 0
       \/ /\ \E n \in EventsOfType(ev, "newTexture") :
                EventsOfType(ev, "newTexture") = {n} /\ ev[n].data = t
          /\ PoolEntries(before, t) = {}

LastIndexSegment(state) == state.indexBufferMap.segs[Len(state.indexBufferMap.segs)]

\* The indices of a request of V vertices at vertex base b: for a fan the
\* triangles {b, b+i, b+i+1}, i from 1 to V-2; for quads the triangles
\* {b+4q, b+4q+1, b+4q+2} and {b+4q+2, b+4q+3, b+4q} of each quad q.
IndexPattern(indexMode, b, V, n, base) ==
    /\ n = (IF indexMode = "FAN" THEN 3 * (V - 2) ELSE 6 * (V \div 4))
    /\ indexMode = "FAN" =>
          \A i \in 1..(V - 2) :
             /\ fillIndices(indexMode, base, V, 3 * (i - 1) + 1) = b
             /\ fillIndices(indexMode, base, V, 3 * (i - 1) + 2) = b + i
             /\ fillIndices(indexMode, base, V, 3 * (i - 1) + 3) = b + i + 1
    /\ indexMode = "QUADS" =>
          \A q \in 0..(V \div 4 - 1) :
             \A j \in 1..6 :
                fillIndices(indexMode, base, V, 6 * q + j) = b + 4 * q + QuadCorners[j]
    /\ \A k \in 1..n :
          /\ fillIndices(indexMode, base, V, k) >= b
          /\ fillIndices(indexMode, base, V, k) < b + V

\* C22: a request of V vertices in fan or quad mode, appended at vertex
\* base b, adds 3 * (V - 2) or 6 * (V / 4) to the batch's index count and
\* that many indices are written for it, following the fan or quad pattern
\* offset by b, each the index of a vertex of this request.
C22_IndexGeneration ==
    [][(call'.op = "requestBatchedDraw" /\ call'.arg.indexMode # "NONE") =>
          /\ IndexPattern(call'.arg.indexMode,
                          batchedDrawState'.vertexCount - call'.arg.vertexCount,
                          call'.arg.vertexCount,
                          getIndexCount(call'.arg.indexMode, call'.arg.vertexCount),
                          IF getIndexCount(call'.arg.indexMode, call'.arg.vertexCount) > 0
                          THEN LastIndexSegment(batchedDrawState').base
                          ELSE batchedDrawState'.vertexCount - call'.arg.vertexCount)
          /\ getIndexCount(call'.arg.indexMode, call'.arg.vertexCount) > 0 =>
                /\ batchedDrawState'.indexBufferMap.segs # <<>>
                /\ LastIndexSegment(batchedDrawState').req = nreq'
                /\ LastIndexSegment(batchedDrawState').len =
                      getIndexCount(call'.arg.indexMode, call'.arg.vertexCount) * IndexSize
          /\ batchedDrawState'.indexCount =
                (IF EventsOfType(call'.ev, "draw") # {} THEN 0 ELSE batchedDrawState.indexCount)
                + getIndexCount(call'.arg.indexMode, call'.arg.vertexCount)]_vars

\* The steps a slot may take, as <<state before, state after>>.
SlotSteps == {<<"Idle", "Recording">>, <<"Recording", "Submitted">>, <<"Submitted", "Idle">>}

\* C23: a frame slot moves only from Idle to Recording, from Recording to
\* Submitted and from Submitted to Idle, the last only with its fence
\* signalled; the k-th frame records in slot (k - 1) % MAX_FRAMES_IN_FLIGHT;
\* at most one slot is Recording; a command buffer grows only while its
\* slot is Recording and is emptied only while its slot is Idle.
C23_SlotLifecycle ==
    /\ [](Cardinality({s \in Slots : slotState[s] = "Recording"}) <= 1)
    /\ [][\A s \in Slots :
            /\ slotState'[s] # slotState[s] =>
                  /\ <<slotState[s], slotState'[s]>> \in SlotSteps
                  /\ slotState'[s] = "Idle" => inFlightFences'[s]
                  /\ slotState'[s] = "Recording" =>
                        s = (beginCount - 1) % MAX_FRAMES_IN_FLIGHT
            /\ Len(commandBuffers'[s]) > Len(commandBuffers[s]) =>
                  /\ slotState[s] = "Recording"
                  /\ slotState'[s] = "Recording"
            /\ Len(commandBuffers'[s]) < Len(commandBuffers[s]) => slotState[s] = "Idle"]_vars

\* Every slot was used, the first one is recorded again after the commands
\* of its earlier frame were dropped, and another frame is with the GPU.
C23_Witness ==
    /\ beginCount = MAX_FRAMES_IN_FLIGHT + 1
    /\ slotState[currentFrame] = "Recording"
    /\ commandBuffers[currentFrame] = <<"copy">>
    /\ \E s \in Slots : slotState[s] = "Submitted" /\ commandBuffers[s] = <<"draw">>

\* What a configuration says: its members, without the bytes of padding.
Structure(name, configuration) ==
    IF name = "renderPasses"
    THEN [colorAttachments |->
              [i \in DOMAIN configuration.colorAttachments |->
                  [configuration.colorAttachments[i] EXCEPT !.padding = 0]],
          staticData |-> [configuration.staticData EXCEPT !.padding = 0]]
    ELSE configuration

\* The entries of a cache made for a configuration that says the same.
SameStructure(name, cache, configuration) ==
    {e \in cache : Structure(name, e.configuration) = Structure(name, configuration)}

Memoized(before, after, looked) ==
    /\ SameStructure(looked.cache, before, looked.configuration) # {} =>
          /\ looked.created = 0
          /\ after = before
    /\ SameStructure(looked.cache, before, looked.configuration) = {} =>
          /\ looked.created = 1
          /\ after = before \cup {[configuration |-> looked.configuration,
                                   handle |-> looked.handle]}
          /\ \A e \in before : e.handle # looked.handle
    /\ \A e \in after :
          e.handle = looked.handle =>
              Structure(looked.cache, e.configuration)
                  = Structure(looked.cache, looked.configuration)

\* C24: a lookup of a render pass, a framebuffer or a pipeline with a
\* configuration structurally equal to one in the cache creates no object
\* and leaves the cache as it is; a lookup of any other configuration
\* creates one object and inserts it under a new handle; the handle
\* returned was created for a structurally equal configuration.
C24_MemoizedLookups ==
    [][cacheVars' # cacheVars =>
          Memoized(IF lookup'.cache = "renderPasses" THEN renderPasses
                   ELSE IF lookup'.cache = "framebuffers" THEN framebuffers
                   ELSE graphicsPipelines,
                   IF lookup'.cache = "renderPasses" THEN renderPasses'
                   ELSE IF lookup'.cache = "framebuffers" THEN framebuffers'
                   ELSE graphicsPipelines',
                   lookup')]_vars

\* The stages cached for a stage type before a call that were compiled
\* from a source.
CachedFor(stage, source) ==
    {e.stage : e \in {c \in cachedShaderStages[stage] : shaderStages[c.stage].source = source}}

\* The request reads and writes the cache: caching asked for, a source, no
\* custom defines.
StageCached(c) == c.cache /\ c.source # "" /\ c.defines = {}

\* What the claims say of newShaderStage apart from which sources share an
\* entry: a cached request for a (stage type, source) that has an entry
\* returns its stage and compiles nothing; a request with custom defines,
\* without a source or without caching compiles a new stage and leaves the
\* cache as it is; a cached request without an entry under its key, as
\* after cleanupCachedShaderStage, compiles a new stage.
StageCacheUse(c) ==
    /\ StageCached(c) /\ CachedFor(c.stage, c.source) # {} =>
          /\ c.ret \in CachedFor(c.stage, c.source)
          /\ ~c.compiled
          /\ shaderStages' = shaderStages
    /\ ~StageCached(c) =>
          /\ cachedShaderStages' = cachedShaderStages
          /\ c.compiled
          /\ c.ret = Len(shaderStages) + 1
          /\ shaderStages'[c.ret].cachekey = ""
    /\ StageCached(c) /\ FindStage(cachedShaderStages[c.stage], SHA1(c.source)) = {} =>
          /\ c.compiled
          /\ c.ret = Len(shaderStages) + 1
          /\ FindStage(cachedShaderStages'[c.stage], SHA1(c.source)) = {c.ret}
    /\ c.compiled =>
          /\ Len(shaderStages') = Len(shaderStages) + 1
          /\ shaderStages'[c.ret].type = c.stage
          /\ shaderStages'[c.ret].source = c.source

CleanupRemoves(c) ==
    /\ FindStage(cachedShaderStages'[c.stage], c.hashkey) = {}
    /\ \A type \in ShaderStageTypes :
          cachedShaderStages'[type]
              = {e \in cachedShaderStages[type] : type # c.stage \/ e.key # c.hashkey}

\* C25 as stated: as above, and the stage returned was compiled for the
\* stage type and from the source asked for: different sources and
\* different stage types never share a cache entry.
C25_StageCacheBySource ==
    [][stageVars' # stageVars =>
          IF stageCall'.op = "newShaderStage"
          THEN /\ StageCacheUse(stageCall')
               /\ shaderStages'[stageCall'.ret].type = stageCall'.stage
               /\ shaderStages'[stageCall'.ret].source = stageCall'.source
          ELSE CleanupRemoves(stageCall')]_vars

\* C25 amended: as above, and the stage returned was compiled for the stage
\* type asked for and from a source with the SHA-1 digest of the source
\* asked for: different stage types and sources of different digests never
\* share a cache entry, two sources of one digest do.
C25_StageCacheByDigest ==
    [][stageVars' # stageVars =>
          IF stageCall'.op = "newShaderStage"
          THEN /\ StageCacheUse(stageCall')
               /\ shaderStages'[stageCall'.ret].type = stageCall'.stage
               /\ SHA1(shaderStages'[stageCall'.ret].source) = SHA1(stageCall'.source)
          ELSE CleanupRemoves(stageCall')]_vars

\* A cached stage was returned for a request, after an entry of another
\* stage type was made and after an entry was removed and made again.
C25_Witness ==
    /\ stageCall.op = "newShaderStage"
    /\ ~stageCall.compiled
    /\ StageCached(stageCall)
    /\ shaderStages[stageCall.ret].source = stageCall.source
    /\ \E type \in ShaderStageTypes \ {stageCall.stage} : cachedShaderStages[type] # {}
    /\ \E s \in DOMAIN shaderStages :
          /\ s < stageCall.ret
          /\ shaderStages[s].type = stageCall.stage
          /\ shaderStages[s].cachekey = shaderStages[stageCall.ret].cachekey

\* C26: updatePendingReadbacks polls every readback pending at its start
\* once and no other, and leaves pending, once each, exactly those that
\* did not report complete; the queue holds asynchronous readbacks only;
\* after an update no readback whose copy the GPU had finished is pending.
C26_PendingReadbacks ==
    /\ [](\A i \in DOMAIN pendingReadbacks :
            readbacks[pendingReadbacks[i]].method = "READBACK_ASYNC")
    /\ [][readbackCall'.op = "updatePendingReadbacks" /\ readbackVars' # readbackVars =>
            /\ \A id \in DOMAIN readbacks :
                  readbackCall'.polls[id] = IF id \in Range(pendingReadbacks) THEN 1 ELSE 0
            /\ Range(pendingReadbacks')
                  = {id \in Range(pendingReadbacks) : ~readbacks[id].done}
            /\ Len(pendingReadbacks') = Cardinality(Range(pendingReadbacks'))]_vars

\* An update has removed the first of three pending readbacks and kept the
\* other two, after an immediate readback was made.
C26_Witness ==
    /\ readbackCall.op = "updatePendingReadbacks"
    /\ Len(pendingReadbacks) = 2
    /\ \E id \in DOMAIN readbacks :
          /\ readbacks[id].method = "READBACK_ASYNC"
          /\ readbacks[id].done
          /\ readbackCall.polls[id] = 1
          /\ \A i \in DOMAIN pendingReadbacks : pendingReadbacks[i] > id
    /\ \E id \in DOMAIN readbacks : readbacks[id].method = "READBACK_IMMEDIATE"

\* The backends of the preference order that are enabled and compiled in.
Candidates(c) ==
    SelectSeq(rendererOrder, LAMBDA r : r \in c.renderers /\ r \in c.compiled)

\* The places in a sequence of backends of those whose creation succeeds.
Working(c, seq) == {i \in DOMAIN seq : seq[i] \in c.works}

\* C27: with an instance of the module, createInstance returns it and
\* creates no backend; without, it tries the enabled backends in the
\* preference order up to the first whose creation succeeds and returns
\* that one, or tries them all and returns none; at most one backend is
\* alive at a time.
C27_CreateInstance ==
    /\ backendsAlive <= 1
    /\ instanceCall.op = "createInstance" =>
          IF instanceCall.existing # "none"
          THEN instanceCall.ret = instanceCall.existing /\ instanceCall.tried = <<>>
          ELSE IF Working(instanceCall, Candidates(instanceCall)) = {}
          THEN instanceCall.ret = "none" /\ instanceCall.tried = Candidates(instanceCall)
          ELSE /\ Working(instanceCall, instanceCall.tried) = {Len(instanceCall.tried)}
               /\ instanceCall.tried
                     = SubSeq(Candidates(instanceCall), 1, Len(instanceCall.tried))
               /\ instanceCall.ret = instanceCall.tried[Len(instanceCall.tried)]

\* A call finds the Vulkan backend, which an earlier call created after
\* the backends before it in the order were skipped or failed, and creates
\* nothing though every backend is enabled and would succeed.
C27_Witness ==
    /\ instanceCall.op = "createInstance"
    /\ instanceCall.existing = "RENDERER_VULKAN"
    /\ instanceCall.renderers = Renderers
    /\ instanceCall.compiled = Renderers
    /\ instanceCall.works = Renderers
    /\ instanceCall.ret = "RENDERER_VULKAN"
    /\ backendsAlive = 1

\* The arguments of a conversion.
ConversionInput(c) == <<c.pixelformat, c.renderbuffer, c.isSRGB>>

\* C28: two conversions of a context with the same pixel format,
\* renderbuffer flag and sRGB flag give the same enumerants and the same
\* sRGB flag; a conversion that maps the format to no internal format has
\* printed a diagnostic, and one that printed a diagnostic leaves internal
\* format, external format and type at zero.
C28_ConvertPixelFormat ==
    /\ conversion.op = "convertPixelFormat" /\ previousConversion.op = "convertPixelFormat"
          /\ ConversionInput(conversion) = ConversionInput(previousConversion)
          => conversion.f = previousConversion.f
    /\ conversion.op = "convertPixelFormat" =>
          /\ conversion.f.internalformat = "0" => conversion.f.printed
          /\ conversion.f.printed =>
                /\ conversion.f.internalformat = "0"
                /\ conversion.f.externalformat = "0"
                /\ conversion.f.type = "0"

\* What reset leaves apart from the display state on top: the screen is
\* bound with its projection, the transform on top is the identity with
\* pixel scale 1, and the stacks are as deep as they were.
ResetRest ==
    /\ Len(states') = Len(states)
    /\ Front(states') = Front(states)
    /\ boundRTs' = DefaultRenderTargets
    /\ deviceProjectionMatrix' = computeDeviceProjection(ortho(Screen.w, Screen.h), FALSE)
    /\ transformStack' = SetTop(transformStack, "identity")
    /\ pixelScaleStack' = SetTop(pixelScaleStack, 1)
    /\ stackTypeStack' = stackTypeStack
    /\ call'.err = "none"

C30_Points ==
    /\ [][call'.op = "points" /\ call'.arg.colors = <<>> =>
            /\ nreq' = nreq + 1
            /\ Last(reqLog').primitiveMode = "POINTS"
            /\ Last(reqLog').vertexCount = call'.arg.numpoints
            /\ Last(reqLog').indexMode = "NONE"
            /\ Len(call'.ret.colordata) = call'.arg.numpoints
            /\ \A i \in 1..call'.arg.numpoints :
                  call'.ret.colordata[i] = toColor32(Colorf(Last(states).color))
            /\ call'.ret.stream[2].len = 4 * call'.arg.numpoints
            /\ batchedDrawState.vertexCount = 0 =>
                  /\ DrawsOf(call') = <<>>
                  /\ batchedDrawState'.vertexCount = call'.arg.numpoints]_vars
    /\ [][call'.op = "flushBatchedDraws" /\ call.op = "points"
            /\ batchedDrawState.vertexCount = 100 =>
            /\ Len(DrawsOf(call')) = 1
            /\ DrawsOf(call')[1].data.primitiveType = "POINTS"
            /\ DrawsOf(call')[1].data.vertexCount = 100
            /\ ~DrawsOf(call')[1].data.indexed
            /\ DrawsOf(call')[1].data.vreqs = <<nreq>>
            /\ ~DrawsOf(call')[1].data.garbage]_vars

\* 100 red points were requested and drawn by one flush.
C30_Witness ==
    /\ call.op = "flushBatchedDraws"
    /\ Len(DrawsOf(call)) = 1
    /\ DrawsOf(call)[1].data.vertexCount = 100
    /\ DrawsOf(call)[1].data.primitiveType = "POINTS"
    /\ Last(states).color = "red"
    /\ Len(drawLog) = 1

(***************************************************************************)
(* Rectangles.                                                             *)
(***************************************************************************)
\* The call was rectangle with radii that are not positive (the plain
\* rectangle) or with positive radii (the rounded one).
PlainCall(c) == c.op = "rectangle" /\ (Len(c.arg) = 2 \/ c.arg[3] <= 0 \/ c.arg[4] <= 0)

RoundedCall(c) == c.op = "rectangle" /\ Len(c.arg) = 4 /\ c.arg[3] > 0 /\ c.arg[4] > 0

\* C31: a filled plain rectangle and the filled rounded rectangle called
\* right after it make two fan-indexed requests with different vertex counts
\* and the same formats, texture and shader role; when the stream buffers
\* hold both, the second call draws nothing and both requests are pending
\* after it, and a flush draws all pending requests with one draw call.
C31_RectanglesBatched ==
    /\ [][PlainCall(call) /\ RoundedCall(call') =>
            /\ nreq' = nreq + 1
            /\ reqLog[nreq].indexMode = "FAN"
            /\ reqLog'[nreq'].indexMode = "FAN"
            /\ reqLog[nreq].vertexCount # reqLog'[nreq'].vertexCount
            /\ ReqKey(reqLog[nreq]) = ReqKey(reqLog'[nreq'])
            /\ (nreq \in Range(PendingReqs) /\ CapacitySuffices(reqLog'[nreq'])) =>
                  /\ DrawsOf(call') = <<>>
                  /\ PendingReqs' = Append(PendingReqs, nreq')]_vars
    /\ [][call'.op = "flushBatchedDraws" /\ PendingReqs # <<>> =>
            /\ Len(DrawsOf(call')) = 1
            /\ DrawsOf(call')[1].data.vreqs = PendingReqs
            /\ DrawsOf(call')[1].data.indexed
            /\ PendingReqs' = <<>>]_vars

\* A plain rectangle of 4 vertices and a rounded one of 16 were drawn by the
\* one draw call of a flush.
C31_Witness ==
    /\ call.op = "flushBatchedDraws"
    /\ Len(DrawsOf(call)) = 1
    /\ DrawsOf(call)[1].data.vreqs = <<nreq - 1, nreq>>
    /\ reqLog[nreq - 1].vertexCount = 4
    /\ reqLog[nreq].vertexCount = 16
    /\ DrawsOf(call)[1].data.vertexCount = 20
    /\ DrawsOf(call)[1].data.indexCount = 48

(***************************************************************************)
(* The pop of a full-state push.                                           *)
(***************************************************************************)
\* C32: the pop of a full-state push switches the render targets only when
\* the saved targets differ from the current ones, and when the saved state
\* equals the current one it switches no render target (the switch counter
\* stays), makes no draw call of the pending batch, which stays pending, and
\* leaves the device projection as it is.
C32_PopReissuesChangedOnly ==
    [][(call'.op = "pop" /\ stackTypeStack # <<>> /\ Last(stackTypeStack) = "ALL") =>
          /\ EventsOfType(call'.ev, "setRenderTargetsInternal") # {} =>
                states[Len(states) - 1].renderTargets # Last(states).renderTargets
          /\ states[Len(states) - 1] = Last(states) =>
                /\ renderTargetSwitchCount' = renderTargetSwitchCount
                /\ DrawsOf(call') = <<>>
                /\ deviceProjectionMatrix' = deviceProjectionMatrix
                /\ batchedDrawState' = batchedDrawState]_vars

(***************************************************************************)
(* The idle age of the pool entries.                                       *)
(***************************************************************************)
\* What one update makes of a pool: an entry at the idle limit is gone, an
\* idle entry below it is there once and one frame older, an entry that is
\* checked out is there once and unchanged; nothing else is in the pool.
PoolAged(before, after) ==
    /\ \A i \in 1..Len(before) :
          IF before[i].framesSinceUse >= MAX_TEMPORARY_RESOURCE_UNUSED_FRAMES
          THEN \A j \in 1..Len(after) : after[j].serial # before[i].serial
          ELSE /\ Cardinality({j \in 1..Len(after) : after[j].serial = before[i].serial}) = 1
               /\ \E j \in 1..Len(after) :
                     after[j] = [before[i] EXCEPT
                                   !.framesSinceUse = IF @ = -1 THEN -1 ELSE @ + 1]
    /\ Len(after) = Cardinality({i \in 1..Len(before) :
                        before[i].framesSinceUse < MAX_TEMPORARY_RESOURCE_UNUSED_FRAMES})

\* The tags of a pool are within -1 .. the idle limit.
TagsInRange(pool) ==
    \A i \in 1..Len(pool) :
        pool[i].framesSinceUse \in -1 .. MAX_TEMPORARY_RESOURCE_UNUSED_FRAMES

\* C33: an update ages every idle entry of both pools exactly once, also
\* when entries are evicted in the same update, and neither ages nor evicts
\* an entry that is checked out; an acquire leaves the entry of the object
\* it returns with the tag -1 and a release with the tag 0; and every tag is
\* within -1 .. the idle limit at all times.
C33_AgeOnce ==
    /\ [][call'.op = "updateTemporaryResources" =>
            /\ PoolAged(temporaryTextures, temporaryTextures')
            /\ PoolAged(temporaryBuffers, temporaryBuffers')]_vars
    /\ [][call'.op = "getTemporaryTexture" =>
            \A j \in PoolEntries(temporaryTextures', call'.ret) :
                temporaryTextures'[j].framesSinceUse = -1]_vars
    /\ [][call'.op = "getTemporaryBuffer" =>
            \A j \in 1..Len(temporaryBuffers') :
                temporaryBuffers'[j].buffer = call'.ret =>
                    temporaryBuffers'[j].framesSinceUse = -1]_vars
    /\ [][call'.op = "releaseTemporaryTexture" =>
            \A j \in PoolEntries(temporaryTextures', call'.arg) :
                temporaryTextures'[j].framesSinceUse = 0]_vars
    /\ [][call'.op = "releaseTemporaryBuffer" =>
            \A j \in 1..Len(temporaryBuffers') :
                temporaryBuffers'[j].buffer = call'.arg =>
                    temporaryBuffers'[j].framesSinceUse = 0]_vars
    /\ [](TagsInRange(temporaryTextures) /\ TagsInRange(temporaryBuffers))

\* An update of a pool of two textures has evicted one, which had reached
\* the idle limit, and aged the other from 0 to 1 in the same pass.
C33_Witness ==
    /\ call.op = "updateTemporaryResources"
    /\ Len(call.ev) = 1
    /\ call.ev[1].type = "release"
    /\ \E i \in PoolEntries(<<TemporaryTexture("DEPTH24", 4, 4, 1, 1)>>, call.ev[1].data) : TRUE
    /\ Len(temporaryTextures) = 1
    /\ temporaryTextures[1].serial = 2
    /\ temporaryTextures[1].framesSinceUse = 1
    /\ temporaryBuffers = <<>>

(***************************************************************************)
(* The bindings OpenGL tracks.                                             *)
(***************************************************************************)
\* The GL calls of a call that bind a buffer or a framebuffer.
BindCalls(c) ==
    SelectSeq(c.calls, LAMBDA e : e[1] \in {"glBindBuffer", "glBindBufferBase", "glBindFramebuffer"})

\* C34: the binding OpenGL tracks for each buffer usage, each indexed
\* binding point and the draw and read framebuffer is the binding the GL
\* context has; and a bind call makes a GL bind exactly when the handle
\* differs from the tracked binding it is for (for a framebuffer: from one of
\* the tracked bindings of the target), and then one.
C34_TrackedBindings ==
    /\ [](/\ \A usage \in BufferUsages :
               /\ boundBuffers[usage] = context.bufferBinding[getGLBufferType(usage)]
               /\ boundIndexedBuffers[usage] = context.indexedBufferBinding[getGLBufferType(usage)]
          /\ boundFramebuffers[1] = context.framebufferBinding.GL_DRAW_FRAMEBUFFER
          /\ boundFramebuffers[2] = context.framebufferBinding.GL_READ_FRAMEBUFFER)
    /\ [][glCall'.op = "bindBuffer" =>
            Len(BindCalls(glCall')) =
               IF boundBuffers[glCall'.arg[1]] # glCall'.arg[2] THEN 1 ELSE 0]_vars
    /\ [][glCall'.op = "bindIndexedBuffer" =>
            Len(BindCalls(glCall')) =
               IF /\ glCall'.arg[3] < Len(boundIndexedBuffers[glCall'.arg[2]])
                  /\ boundIndexedBuffers[glCall'.arg[2]][glCall'.arg[3] + 1] # glCall'.arg[1]
               THEN 1 ELSE 0]_vars
    /\ [][glCall'.op = "bindFramebuffer" =>
            Len(BindCalls(glCall')) =
               IF \/ "DRAW" \in glCall'.arg[1] /\ boundFramebuffers[1] # glCall'.arg[2]
                  \/ "READ" \in glCall'.arg[1] /\ boundFramebuffers[2] # glCall'.arg[2]
               THEN 1 ELSE 0]_vars

\* A buffer bound to an indexed binding point, and so to the target, was
\* deleted while another buffer is bound to the other point, and a
\* framebuffer is bound for reading only.
C34_Witness ==
    /\ glCall.op = "deleteBuffer"
    /\ glCall.arg = <<1>>
    /\ boundIndexedBuffers["BUFFERUSAGE_SHADER_STORAGE"] = <<0, 2>>
    /\ boundBuffers["BUFFERUSAGE_SHADER_STORAGE"] = 0
    /\ boundBuffers["BUFFERUSAGE_VERTEX"] = 2
    /\ boundFramebuffers = <<0, 1>>

\* C35: the texture unit OpenGL tracks as active is the active unit of the
\* GL context, and the texture it tracks for each texture type and unit is
\* the context's binding; bindTextureToUnit with restoreprev leaves the
\* active unit as it was, and without restoreprev, when it changes the
\* binding, leaves the requested unit active.
C35_TrackedTextureUnits ==
    /\ [](/\ curTextureUnit = context.activeTexture
          /\ \A type \in TextureTypes :
                boundTextures[type] = context.textureBinding[getGLTextureType(type)])
    /\ [][(glCall'.op = "bindTextureToUnit" /\ glCall'.arg[4]) =>
            /\ curTextureUnit' = curTextureUnit
            /\ context'.activeTexture = context.activeTexture]_vars
    /\ [][(/\ glCall'.op = "bindTextureToUnit"
           /\ ~glCall'.arg[4]
           /\ boundTextures[glCall'.arg[1]][glCall'.arg[3] + 1] # glCall'.arg[2]) =>
            /\ curTextureUnit' = glCall'.arg[3]
            /\ context'.activeTexture = glCall'.arg[3]
            /\ boundTextures'[glCall'.arg[1]][glCall'.arg[3] + 1] = glCall'.arg[2]]_vars

\* A texture was bound to the unit that is not active, with restoreprev:
\* the unit was made active for the bind and the previous one after it.
C35_Witness ==
    /\ glCall.op = "bindTextureToUnit"
    /\ glCall.arg = <<"TEXTURE_2D", 2, 1, TRUE, FALSE>>
    /\ glCall.calls = <<<<"glActiveTexture", 1>>, <<"glBindTexture", "GL_TEXTURE_2D", 2>>,
                        <<"glActiveTexture", 0>>>>
    /\ curTextureUnit = 0
    /\ boundTextures["TEXTURE_2D"] = <<1, 2>>
    /\ boundTextures["TEXTURE_MAX_ENUM"] = <<0, 3>>

(***************************************************************************)
(* Compute dispatches.                                                     *)
(***************************************************************************)
\* The arguments dispatchThreadgroups rejects.
DispatchRejected(arg) ==
    \/ arg.shader \notin ComputeShaders
    \/ arg.x <= 0 \/ arg.y <= 0 \/ arg.z <= 0
    \/ arg.x > LimitThreadgroups \/ arg.y > LimitThreadgroups \/ arg.z > LimitThreadgroups

\* C36: dispatchThreadgroups with a shader without compute stage, a size
\* that is not positive or a size above the limit raises an error and makes
\* no backend call, draws nothing of the pending batch and attaches nothing;
\* otherwise it draws the pending batch, then dispatches with nothing
\* pending, and raises an error exactly when the dispatch fails; in all
\* cases the shader current before the call is current after it.
C36_Dispatch ==
    [][call'.op = "dispatchThreadgroups" =>
          /\ shaderCurrent' = shaderCurrent
          /\ IF DispatchRejected(call'.arg)
             THEN /\ call'.err # "none"
                  /\ call'.ev = <<>>
                  /\ batchedDrawState' = batchedDrawState
             ELSE /\ Len(DrawsOf(call')) = IF batchedDrawState.vertexCount > 0 THEN 1 ELSE 0
                  /\ Last(call'.ev).type = "dispatch"
                  /\ Last(call'.ev).pendingV = 0
                  /\ Last(call'.ev).pendingI = 0
                  /\ Last(call'.ev).data = <<call'.arg.x, call'.arg.y, call'.arg.z>>
                  /\ Len(call'.ev) = Len(DrawsOf(call')) + 1
                  /\ batchedDrawState'.vertexCount = 0
                  /\ (call'.err = "none") = call'.arg.success]_vars

\* A dispatch failed after the pending batch was drawn, and the custom
\* shader that was current is current again.
C36_Witness ==
    /\ call.op = "dispatchThreadgroups"
    /\ call.err = "resources not bound"
    /\ Len(DrawsOf(call)) = 1
    /\ Len(call.ev) = 2
    /\ shaderCurrent = "shader1"
    /\ call.arg.shader = "compute1"

(***************************************************************************)
(* Buffer copies.                                                          *)
(***************************************************************************)
\* The bytes [offset1, offset1 + size) and [offset2, offset2 + size) have a
\* byte in common.
BytesOverlap(offset1, offset2, size) ==
    \E b \in offset1..(offset1 + size - 1) : b \in offset2..(offset2 + size - 1)

\* The conditions under which a copy may be performed.
CopyAllowed(arg) ==
    /\ arg.supported
    /\ arg.dest.datausage # "STREAM"
    /\ ~arg.dest.immutable
    /\ arg.source.datausage # "READBACK"
    /\ arg.sourceoffset + arg.size <= arg.source.size
    /\ arg.destoffset + arg.size <= arg.dest.size
    /\ (arg.source = arg.dest => ~BytesOverlap(arg.sourceoffset, arg.destoffset, arg.size))

\* C37: copyBuffer performs the copy only when copying is supported, the
\* destination is neither a stream buffer nor immutable, the source is not a
\* readback buffer, offset + size lies within the source and within the
\* destination, and the ranges of one buffer do not overlap; in every other
\* case it raises an error and copies nothing.  A copy that is performed is
\* the one that was asked for, and nothing else reaches the backend.
C37_CopyBuffer ==
    call.op = "copyBufferWith" =>
        /\ (EventsOfType(call.ev, "copyTo") # {} => CopyAllowed(call.arg))
        /\ (~CopyAllowed(call.arg) => call.err # "none" /\ call.ev = <<>>)
        /\ (call.err = "none" =>
               /\ Len(call.ev) = 1
               /\ call.ev[1].type = "copyTo"
               /\ call.ev[1].data = [source |-> call.arg.source.name,
                                     dest |-> call.arg.dest.name,
                                     sourceoffset |-> call.arg.sourceoffset,
                                     destoffset |-> call.arg.destoffset,
                                     size |-> call.arg.size])

\* A copy within one buffer between two ranges that touch without
\* overlapping was performed.
C37_Witness ==
    /\ call.op = "copyBufferWith"
    /\ call.err = "none"
    /\ call.arg.source = call.arg.dest
    /\ call.arg.sourceoffset = 8
    /\ call.arg.destoffset = 0
    /\ call.arg.size = 8
    /\ EventsOfType(call.ev, "copyTo") = {1}

(***************************************************************************)
(* Lengths of the stacks.                                                  *)
(***************************************************************************)
\* The full-state pushes that have not been popped.
OutstandingFullPushes ==
    Cardinality({i \in 1..Len(stackTypeStack) : stackTypeStack[i] = "ALL"})

StackLengths ==
    /\ Len(transformStack) = Len(pixelScaleStack)
    /\ Len(pixelScaleStack) = Len(stackTypeStack) + 1
    /\ Len(states) = 1 + OutstandingFullPushes
    /\ Len(transformStack) >= Len(states)

\* C38: after any sequence of push, pop, reset, transform operations and
\* flushes the transform stack is as long as the pixel-scale stack, which is
\* the user stack depth plus 1, the state stack has 1 entry plus one for
\* each outstanding full-state push, the transform stack is never shorter
\* than the state stack, and a flush leaves the transform stack and the
\* current colour as they were.
C38_StackLengths ==
    [][/\ StackLengths
       /\ StackLengths'
       /\ call'.op = "flushBatchedDraws" =>
              /\ transformStack' = transformStack
              /\ Last(states').color = Last(states).color]_vars

\* A flush drew a pending request under a scaled transform and a colour
\* that is not the default, two pushes deep with one of them a full-state
\* push.
C38_Witness ==
    /\ call.op = "flushBatchedDraws"
    /\ Len(DrawsOf(call)) = 1
    /\ Len(stackTypeStack) = 2
    /\ OutstandingFullPushes = 1
    /\ Len(states) = 2
    /\ Len(transformStack) = 3
    /\ Last(transformStack) # "identity"
    /\ Last(states).color = "red"

(***************************************************************************)
(* Reading back the render targets.                                        *)
(***************************************************************************)
\* C39: after a successful setRenderTargets(rts), getRenderTargets() returns
\* the colour attachments (texture, slice, mipmap), the depth-stencil
\* attachment (texture, slice, mipmap) and the temporary flags of rts.
C39_RenderTargetsRoundTrip ==
    (call.op = "setRenderTargets" /\ call.err = "none") =>
        /\ getRenderTargets(G(FALSE)).colors = call.arg.colors
        /\ getRenderTargets(G(FALSE)).depthStencil = call.arg.depthStencil
        /\ getRenderTargets(G(FALSE)).temporaryRTFlags = call.arg.temporaryRTFlags

(***************************************************************************)
(* Scissor.                                                                *)
(***************************************************************************)
\* The pixels around the origin have coordinates -ScissorExtent..ScissorExtent.
ScissorExtent == 9

\* The pixels of the window a rectangle covers: columns x .. x + w - 1 and
\* rows y .. y + h - 1.
PixelsOf(rect) ==
    (Max(rect.x, -ScissorExtent)..Min(rect.x + rect.w - 1, ScissorExtent))
        \X (Max(rect.y, -ScissorExtent)..Min(rect.y + rect.h - 1, ScissorExtent))

\* The scissor of a state stack: its rectangle when it is active, the
\* unbounded rectangle that starts at the origin when it is not.
ScissorOf(sts) ==
    IF Last(sts).scissor THEN Last(sts).scissorRect ELSE Rect(0, 0, IntMax, IntMax)

\* C40: intersectScissor(r) enables the scissor and sets it to the
\* intersection of the scissor before the call (the unbounded rectangle at
\* the origin when none was active) with r: it covers the pixels both cover,
\* its width and height are not negative, it covers no pixel outside the
\* scissor before the call, and applying the same rectangle again leaves the
\* scissor as it is.
C40_IntersectScissor ==
    [][call'.op = "intersectScissor" =>
          /\ getScissor(G(FALSE))'.ret
          /\ PixelsOf(getScissor(G(FALSE))'.rect) = PixelsOf(ScissorOf(states)) \cap PixelsOf(call'.arg)
          /\ getScissor(G(FALSE))'.rect.w >= 0
          /\ getScissor(G(FALSE))'.rect.h >= 0
          /\ PixelsOf(getScissor(G(FALSE))'.rect) \subseteq PixelsOf(ScissorOf(states))
          /\ (call.op = "intersectScissor" /\ call.arg = call'.arg) =>
                 getScissor(G(FALSE))' = getScissor(G(FALSE))]_vars

\* A rectangle was intersected with an active scissor that it overlaps in
\* part: the result is smaller than both and not empty.
C40_Witness ==
    /\ call.op = "intersectScissor"
    /\ call.arg = Rect(3, 1, 5, 3)
    /\ Last(states).scissor
    /\ Last(states).scissorRect = Rect(3, 1, 2, 2)

====
